---- MODULE Spec2Model ----
(***************************************************************************)
(* A model of the editor's FoldMap (heat/src/editor/display_map/fold_map.rs)*)
(* over a small text buffer.  The buffer, its anchors, the SumTree cursor   *)
(* and the binary search helper are modelled from the contract the          *)
(* specification gives for them (sections 3, 4.1, 4.2, 4.6 and 9).          *)
(* With it, a model of the WorkspaceView, its panes and its pane group      *)
(* (heat/src/workspace), with loads that end at any later moment.           *)
(***************************************************************************)
EXTENDS Integers, Sequences, FiniteSets, TLC

\* ------------------------------------------------------------------ bounds
\* Longest buffer text the model lets the buffer grow to.
MaxLen == 3
\* Most entries the model lets `folds` hold.
MaxFolds == 2
\* Most entries `folds` holds over a buffer that is never edited.
MaxFoldsNoEdit == 3
\* Most buffer characters the model lets the transforms sum to.
MaxTreeChars == 4
\* The entries of the worktree: 1..MaxEntries
MaxEntries == 2
\* Most items the model lets a pane hold.
MaxItems == 3
\* The last view id the model gives to a pane.
MaxPaneId == 2

\* Pane ids given out when only the panes' events are followed
MaxSplitPaneId == 5

NL == "\n"
Ellipsis == "..."
NoText == "none"

\* Characters a fresh buffer is made of, and the texts an edit may insert.
InitAlphabet == {"a", NL}
InsertTexts == {<<>>, <<"a">>, <<NL>>}

\* usize is modelled with a narrower width; only a wrapped subtraction ever
\* produces a value near the modulus.
USize == 2^16

Min(a, b) == IF a <= b THEN a ELSE b
Max(a, b) == IF a >= b THEN a ELSE b

\* ------------------------------------------------------------------ Point
Point(r, c) == [row |-> r, column |-> c]
PointZero == Point(0, 0)

\* -1, 0, 1 as Ordering::{Less, Equal, Greater}
IntCmp(a, b) == IF a < b THEN -1 ELSE IF a = b THEN 0 ELSE 1
PointCmp(a, b) == IF a.row # b.row THEN IntCmp(a.row, b.row) ELSE IntCmp(a.column, b.column)

PointAdd(a, b) ==
    IF b.row = 0 THEN Point(a.row, a.column + b.column)
    ELSE Point(a.row + b.row, b.column)

\* a - b for b <= a; a wrapped column or row marks b > a.
PointSub(a, b) ==
    IF a.row = b.row THEN Point(0, (a.column - b.column) % USize)
    ELSE Point((a.row - b.row) % USize, a.column)

PointMin(a, b) == IF PointCmp(a, b) <= 0 THEN a ELSE b

\* ------------------------------------------------------------ TextSummary
ZeroSummary ==
    [bytes |-> 0, chars |-> 0, lines |-> PointZero,
     first_line_len |-> 0, rightmost_point |-> PointZero]

SummaryAdd(a, b) ==
    LET joined == a.lines.column + b.first_line_len
        r1 == IF joined > a.rightmost_point.column
              THEN Point(a.lines.row, joined) ELSE a.rightmost_point
        r2 == IF b.rightmost_point.column > r1.column
              THEN PointAdd(a.lines, b.rightmost_point) ELSE r1
    IN [bytes |-> a.bytes + b.bytes,
        chars |-> a.chars + b.chars,
        lines |-> PointAdd(a.lines, b.lines),
        first_line_len |-> IF a.lines.row = 0
                           THEN a.first_line_len + b.first_line_len
                           ELSE a.first_line_len,
        rightmost_point |-> r2]

CharSummary(c) ==
    IF c = NL
    THEN [bytes |-> 1, chars |-> 1, lines |-> Point(1, 0),
          first_line_len |-> 0, rightmost_point |-> PointZero]
    ELSE [bytes |-> 1, chars |-> 1, lines |-> Point(0, 1),
          first_line_len |-> 1, rightmost_point |-> Point(0, 1)]

RECURSIVE SummaryOfText(_)
SummaryOfText(s) ==
    IF s = <<>> THEN ZeroSummary
    ELSE SummaryAdd(SummaryOfText(SubSeq(s, 1, Len(s) - 1)), CharSummary(s[Len(s)]))

\* ----------------------------------------------------------------- Buffer
\* The buffer is its visible text, a sequence of characters; offsets count
\* characters from 0.

BufferLen(text) == Len(text)

TextSlice(text, lo, hi) == [i \in 1..(hi - lo) |-> text[lo + i]]

\* buffer.text_summary_for_range(lo..hi), for lo <= hi <= len
TextSummaryForRange(text, lo, hi) == SummaryOfText(TextSlice(text, lo, hi))

\* buffer.text_summary()
TextSummaryOf(text) == TextSummaryForRange(text, 0, Len(text))

\* offset.to_point(buffer)
OffsetToPoint(text, o) == TextSummaryForRange(text, 0, o).lines

\* Every point of the buffer, one per offset.
BufferPoints(text) == {OffsetToPoint(text, o) : o \in 0..Len(text)}

\* point.to_offset(buffer): the offset of a point of the buffer, -1 (an
\* error) for a point the buffer does not hold.
PointToOffset(text, p) ==
    LET hits == {o \in 0..Len(text) : OffsetToPoint(text, o) = p}
    IN IF hits = {} THEN -1 ELSE CHOOSE o \in hits : TRUE

\* An anchor is the offset it resolves to in the current buffer and the side
\* of an insertion at that offset it sticks to: "Left" (anchor_before) stays
\* left of text inserted there, "Right" (anchor_after) stays right of it.
AnchorBefore(o) == [offset |-> o, bias |-> "Left"]
AnchorAfter(o) == [offset |-> o, bias |-> "Right"]

\* anchor.to_offset(buffer)
AnchorOffset(a) == a.offset

\* Anchor::cmp(a, b, buffer)
AnchorCmp(a, b) ==
    IF a.offset # b.offset THEN IntCmp(a.offset, b.offset)
    ELSE IF a.bias = b.bias THEN 0
    ELSE IF a.bias = "Left" THEN -1 ELSE 1

\* AnchorRangeExt::cmp: by start, then the wider range first.
AnchorRangeCmp(f, g) ==
    LET c == AnchorCmp(f.start, g.start)
    IN IF c # 0 THEN c ELSE AnchorCmp(g.end, f.end)

\* Where an anchor resolves after the characters [s, e) are replaced by n
\* characters.  An anchor on a deleted character resolves to where the
\* deleted text was, which is behind the text inserted in its place.
AnchorAfterReplace(a, s, e, n) ==
    LET o == a.offset
        moved == IF o > e THEN o + n - (e - s)
                 ELSE IF o < s THEN o
                 ELSE IF o = s /\ a.bias = "Left" THEN o
                 ELSE s + n
    IN [a EXCEPT !.offset = moved]

\* The same through every range of one buffer.edit call; the ranges are in
\* the coordinates of the text before the call, ascending and apart.
RECURSIVE AnchorAfterEdit(_, _, _)
AnchorAfterEdit(a, ranges, n) ==
    IF ranges = <<>> THEN a
    ELSE LET r == ranges[Len(ranges)]
         IN AnchorAfterEdit(AnchorAfterReplace(a, r[1], r[2], n),
                            SubSeq(ranges, 1, Len(ranges) - 1), n)

\* buffer.edit(ranges, new_text): the text after the call.
RECURSIVE EditText(_, _, _)
EditText(text, ranges, new_text) ==
    IF ranges = <<>> THEN text
    ELSE LET r == ranges[Len(ranges)]
             t == TextSlice(text, 0, r[1]) \o new_text \o TextSlice(text, r[2], Len(text))
         IN EditText(t, SubSeq(ranges, 1, Len(ranges) - 1), new_text)

\* buffer.edits_since(version before the call): one Edit per replaced range,
\* sorted by old_range.start, old_range in the old text's offsets and
\* new_range in the new text's.
MakeEdit(os, oe, ns, ne) ==
    [old_range |-> [start |-> os, end |-> oe], new_range |-> [start |-> ns, end |-> ne]]

RECURSIVE GrowthBefore(_, _, _)
GrowthBefore(ranges, i, n) ==
    IF i <= 1 THEN 0
    ELSE GrowthBefore(ranges, i - 1, n) + n - (ranges[i - 1][2] - ranges[i - 1][1])

EditsSince(ranges, n) ==
    [i \in 1..Len(ranges) |->
        LET before == GrowthBefore(ranges, i, n)
        IN MakeEdit(ranges[i][1], ranges[i][2],
                    ranges[i][1] + before, ranges[i][1] + before + n)]

\* usize arithmetic: a - b wraps when b > a (a build without overflow checks)
USub(a, b) == (a - b) % USize
Underflows(a, b) == b > a
AsISize(u) == IF u >= USize \div 2 THEN u - USize ELSE u
AsUSize(i) == i % USize

\* Edit::old_extent, Edit::new_extent, Edit::delta
OldExtent(edit) == USub(edit.old_range.end, edit.old_range.start)
NewExtent(edit) == USub(edit.new_range.end, edit.new_range.start)
Delta(edit) == AsISize(NewExtent(edit)) - AsISize(OldExtent(edit))
ExtentUnderflows(edit) ==
    \/ Underflows(edit.old_range.end, edit.old_range.start)
    \/ Underflows(edit.new_range.end, edit.new_range.start)

\* -------------------------------------------------------------- Transform
ZeroTransformSummary == [display |-> ZeroSummary, buffer |-> ZeroSummary]

TransformSummaryAdd(a, b) ==
    [buffer |-> SummaryAdd(a.buffer, b.buffer),
     display |-> SummaryAdd(a.display, b.display)]

\* A passthrough transform over a run of the buffer
Passthrough(text_summary) ==
    [summary |-> [display |-> text_summary, buffer |-> text_summary],
     display_text |-> NoText]

\* An ellipsis summarized as two columns wide
EllipsisSummaryWide ==
    [bytes |-> 3, chars |-> 1, lines |-> Point(0, 2),
     first_line_len |-> 2, rightmost_point |-> Point(0, 2)]

\* The fold transform apply_edits pushes over a hidden run of the buffer
EllipsisSummary ==
    [bytes |-> 3, chars |-> 1, lines |-> Point(0, 1),
     first_line_len |-> 1, rightmost_point |-> Point(0, 1)]

FoldTransform(buffer_summary) ==
    [summary |-> [display |-> EllipsisSummary, buffer |-> buffer_summary],
     display_text |-> Ellipsis]

IsFold(t) == t.display_text # NoText

\* ------------------------------------------------------ SumTree and Cursor
\* The tree is the sequence of its items; a cursor is an index into it,
\* Len + 1 standing for the position past the last item.

\* The summary of the first k items: what a cursor before item k + 1 holds.
RECURSIVE PrefixSummary(_, _)
PrefixSummary(ts, k) ==
    IF k = 0 THEN ZeroTransformSummary
    ELSE TransformSummaryAdd(PrefixSummary(ts, k - 1), ts[k].summary)

\* SumTree::summary
TreeSummary(ts) == PrefixSummary(ts, Len(ts))

\* The Dimension impls for TransformSummary
Dim(d, sum) ==
    CASE d = "usize" -> sum.buffer.chars
      [] d = "Point" -> sum.buffer.lines
      [] d = "DisplayPoint" -> sum.display.lines
      [] d = "DisplayOffset" -> sum.display.chars

DimCmp(d, a, b) ==
    IF d \in {"Point", "DisplayPoint"} THEN PointCmp(a, b) ELSE IntCmp(a, b)

DimZero(d) == IF d \in {"Point", "DisplayPoint"} THEN PointZero ELSE 0

\* Dimension::add_summary
DimAdd(d, acc, sum) ==
    IF d \in {"Point", "DisplayPoint"} THEN PointAdd(acc, Dim(d, sum)) ELSE acc + Dim(d, sum)

\* The dimension d summed over the first k items
RECURSIVE PrefixDim(_, _, _)
PrefixDim(ts, k, d) ==
    IF k = 0 THEN DimZero(d) ELSE DimAdd(d, PrefixDim(ts, k - 1, d), ts[k].summary)

\* Whether a seek for target passes over an item that ends at item_end
SeekSkips(d, target, bias, item_end) ==
    LET c == DimCmp(d, target, item_end)
    IN c > 0 \/ (c = 0 /\ bias = "Right")

\* Cursor::seek_internal: forward from position pos, where the dimension
\* has summed to acc, to the first item the seek does not pass over.
RECURSIVE SeekInternal(_, _, _, _, _, _)
SeekInternal(ts, pos, acc, d, target, bias) ==
    IF pos > Len(ts) THEN Len(ts) + 1
    ELSE IF SeekSkips(d, target, bias, DimAdd(d, acc, ts[pos].summary))
         THEN SeekInternal(ts, pos + 1, DimAdd(d, acc, ts[pos].summary), d, target, bias)
         ELSE pos

\* Cursor::slice moves the cursor on from where it is
SeekFrom(ts, pos, d, target, bias) ==
    SeekInternal(ts, pos, PrefixDim(ts, pos - 1, d), d, target, bias)

\* Cursor::seek: from the start of the tree
Seek(ts, d, target, bias) == SeekInternal(ts, 1, DimZero(d), d, target, bias)

\* Cursor::next
CursorNext(ts, pos) == IF pos > Len(ts) THEN pos ELSE pos + 1

\* Cursor::start, Cursor::end as whole summaries; Cursor::item is ts[pos]
CursorStart(ts, pos) == PrefixSummary(ts, pos - 1)
\* The same for a cursor whose second dimension is d
CursorStartDim(ts, pos, d) == PrefixDim(ts, pos - 1, d)
\* new_transforms.summary().buffer.chars
BufferCharsOf(ts) == PrefixDim(ts, Len(ts), "usize")
CursorEnd(ts, pos) == IF pos > Len(ts) THEN CursorStart(ts, pos) ELSE PrefixSummary(ts, pos)
HasItem(ts, pos) == pos <= Len(ts)

\* ----------------------------------------------------------------- util
\* util::find_insertion_index over the comparisons f(slice[i]), each -1, 0
\* or 1: the binary search's index, counted from 0.
RECURSIVE BinarySearchBase(_, _, _)
BinarySearchBase(cmps, base, size) ==
    IF size <= 1 THEN base
    ELSE LET half == size \div 2
             mid == base + half
         IN BinarySearchBase(cmps, IF cmps[mid + 1] = 1 THEN base ELSE mid, size - half)

FindInsertionIndex(cmps) ==
    IF Len(cmps) = 0 THEN 0
    ELSE LET base == BinarySearchBase(cmps, 0, Len(cmps))
             c == cmps[base + 1]
         IN IF c = 0 THEN base ELSE IF c = -1 THEN base + 1 ELSE base

InsertAt(seq, ix, x) == SubSeq(seq, 1, ix) \o <<x>> \o SubSeq(seq, ix + 1, Len(seq))

\* ---------------------------------------------------- FoldMap::apply_edits
\* A fold as the offsets its anchors resolve to
FoldOffsets(fold) == [start |-> AnchorOffset(fold.start), end |-> AnchorOffset(fold.end)]

\* The state of the loops of apply_edits is one record c: edits (those still
\* to do), new (new_transforms), cur (the cursor into the old tree), edit
\* (the edit in hand, as the loop has rewritten it so far), delta, fr (the
\* folds selected for the edit, as offsets), ovf (whether a usize
\* subtraction has underflowed) and status: "ok"; "err" (an Err from the
\* buffer); "assert" (the assertion on the fold's start); "range" (a summary
\* asked past the buffer's end).

\* new_transforms.push_tree(cursor.slice(&edit.old_range.start, Left))
SliceToEdit(ts, c) ==
    LET edit == Head(c.edits)
        cur1 == SeekFrom(ts, c.cur, "usize", edit.old_range.start, "Left")
    IN [c EXCEPT !.edit = edit, !.edits = Tail(c.edits), !.cur = cur1,
                 !.new = c.new \o SubSeq(ts, c.cur, cur1 - 1)]

\* edit.new_range.start -= edit.old_range.start - cursor.start();
\* edit.old_range.start = *cursor.start()
MoveEditStart(ts, c) ==
    LET cstart == CursorStartDim(ts, c.cur, "usize")
        shift == USub(c.edit.old_range.start, cstart)
    IN [c EXCEPT !.edit = MakeEdit(cstart, c.edit.old_range.end,
                                   USub(c.edit.new_range.start, shift), c.edit.new_range.end),
                 !.ovf = \/ c.ovf
                         \/ Underflows(c.edit.old_range.start, cstart)
                         \/ Underflows(c.edit.new_range.start, shift)]

\* cursor.seek(&edit.old_range.end, Right); cursor.next(); delta = edit.delta()
SeekPastEdit(ts, c) ==
    [c EXCEPT !.cur = CursorNext(ts, Seek(ts, "usize", c.edit.old_range.end, "Right")),
              !.delta = Delta(c.edit),
              !.ovf = c.ovf \/ ExtentUnderflows(c.edit)]

\* The body of the coalescing loop for a next edit that starts at or before
\* the position reached
AbsorbEdit(ts, c, next_edit) ==
    [c EXCEPT !.edits = Tail(c.edits),
              !.delta = c.delta + Delta(next_edit),
              !.ovf = c.ovf \/ ExtentUnderflows(next_edit),
              !.edit = IF next_edit.old_range.end > c.edit.old_range.end
                       THEN [c.edit EXCEPT !.old_range.end = next_edit.old_range.end]
                       ELSE c.edit,
              !.cur = IF next_edit.old_range.end > c.edit.old_range.end
                      THEN CursorNext(ts, Seek(ts, "usize", next_edit.old_range.end, "Right"))
                      ELSE c.cur]

\* The coalescing loop
RECURSIVE Coalesce(_, _)
Coalesce(ts, c) ==
    LET old_end == CursorStartDim(ts, c.cur, "usize")
        c1 == [c EXCEPT !.edit.old_range.end = old_end]
    IN IF c.edits = <<>> THEN c1
       ELSE IF Head(c.edits).old_range.start > old_end THEN c1
       ELSE Coalesce(ts, AbsorbEdit(ts, c1, Head(c.edits)))

\* edit.new_range.end = ((edit.new_range.start + edit.old_extent()) as isize + delta) as usize
SetNewEnd(c) ==
    [c EXCEPT !.edit.new_range.end =
                  AsUSize(AsISize(AsUSize(c.edit.new_range.start + OldExtent(c.edit))) + c.delta),
              !.ovf = c.ovf \/ Underflows(c.edit.old_range.end, c.edit.old_range.start)]

\* The selection without the binary search: every fold of `folds`
SelectFoldsFromFirst(folds, text, c) ==
    IF c.edit.new_range.start > BufferLen(text) THEN [c EXCEPT !.status = "err"]
    ELSE IF c.edit.new_range.end > BufferLen(text) THEN [c EXCEPT !.status = "range"]
    ELSE [c EXCEPT !.fr = [k \in 1..Len(folds) |-> FoldOffsets(folds[k])]]

\* anchor_before(edit.new_range.start)?, the binary search by start anchor,
\* and the folds from there on as offsets
SelectFolds(folds, text, c) ==
    LET anchor == AnchorBefore(c.edit.new_range.start)
        folds_start == FindInsertionIndex([k \in 1..Len(folds) |-> AnchorCmp(folds[k].start, anchor)])
    IN IF c.edit.new_range.start > BufferLen(text) THEN [c EXCEPT !.status = "err"]
       ELSE IF c.edit.new_range.end > BufferLen(text) THEN [c EXCEPT !.status = "range"]
       ELSE [c EXCEPT !.fr = [k \in 1..(Len(folds) - folds_start) |->
                                 FoldOffsets(folds[folds_start + k])]]

\* The fold loop without its inner merge loop: no next fold is absorbed
MergeNone(fr, i, fold_end) == [end |-> fold_end, next |-> i]

\* The inner merge loop: the end of the fold after absorbing every next fold
\* that starts at or before it, and the index of the first fold not absorbed.
RECURSIVE MergeFolds(_, _, _)
MergeFolds(fr, i, fold_end) ==
    IF i <= Len(fr) /\ fr[i].start <= fold_end
    THEN MergeFolds(fr, i + 1, Max(fold_end, fr[i].end))
    ELSE [end |-> fold_end, next |-> i]

\* The pass with the fold transform pushed whatever the span's length
PushFoldAlways(text, new, covered, fold_start, fold_end) ==
    (IF fold_start > covered
     THEN Append(new, Passthrough(TextSummaryForRange(text, covered, fold_start)))
     ELSE new)
    \o <<FoldTransform(TextSummaryForRange(text, fold_start, Max(fold_start, fold_end)))>>

\* What one pass of the fold loop pushes: the passthrough up to the fold
\* and the fold transform over the merged span m
PushFold(text, new, covered, fold_start, fold_end) ==
    (IF fold_start > covered
     THEN Append(new, Passthrough(TextSummaryForRange(text, covered, fold_start)))
     ELSE new)
    \o
    (IF fold_end > fold_start
     THEN <<FoldTransform(TextSummaryForRange(text, fold_start, fold_end))>>
     ELSE <<>>)

\* The loop over the folds that start before the end of the rebuilt region;
\* i is the next fold of c.fr
RECURSIVE EmitFolds(_, _, _)
EmitFolds(text, c, i) ==
    IF c.status # "ok" \/ i > Len(c.fr) THEN c
    ELSE IF ~(c.fr[i].start < c.edit.new_range.end) THEN c
    ELSE LET covered == BufferCharsOf(c.new)
             m == MergeFolds(c.fr, i + 1, c.fr[i].end)
         IN IF c.fr[i].start < covered THEN [c EXCEPT !.status = "assert"]
            ELSE EmitFolds(text,
                           [c EXCEPT !.new = PushFold(text, c.new, covered, c.fr[i].start, m.end)],
                           m.next)

\* The passthrough for what is left of the rebuilt region
PushRemainder(text, c) ==
    LET covered == BufferCharsOf(c.new)
    IN IF c.status = "ok" /\ covered < c.edit.new_range.end
       THEN [c EXCEPT !.new = Append(c.new,
                        Passthrough(TextSummaryForRange(text, covered, c.edit.new_range.end)))]
       ELSE c

\* One pass of the outer loop: one edit and the edits coalesced into it
ProcessEdit(ts, folds, text, c) ==
    PushRemainder(text,
      EmitFolds(text,
        SelectFolds(folds, text,
          SetNewEnd(Coalesce(ts, SeekPastEdit(ts, MoveEditStart(ts, SliceToEdit(ts, c)))))),
        1))

RECURSIVE ApplyEditsLoop(_, _, _, _)
ApplyEditsLoop(ts, folds, text, c) ==
    IF c.status # "ok" \/ c.edits = <<>> THEN c
    ELSE ApplyEditsLoop(ts, folds, text, ProcessEdit(ts, folds, text, c))

\* The new tree swapped in however the loop ended
SwapInAlways(ts, c) ==
    [transforms |-> c.new \o SubSeq(ts, c.cur, Len(ts)), status |-> c.status, ovf |-> c.ovf]

\* new_transforms.push_tree(cursor.suffix()); self.transforms = new_transforms
\* when the loop came through, and the old tree when it did not.
SwapIn(ts, c) ==
    IF c.status = "ok"
    THEN [transforms |-> c.new \o SubSeq(ts, c.cur, Len(ts)), status |-> "ok", ovf |-> c.ovf]
    ELSE [transforms |-> ts, status |-> c.status, ovf |-> c.ovf]

\* FoldMap::apply_edits(edits) on the tree ts, against the buffer as it is now
ApplyEdits(ts, folds, text, edits) ==
    SwapIn(ts, ApplyEditsLoop(ts, folds, text,
                  [edits |-> edits, new |-> <<>>, cur |-> Seek(ts, "usize", 0, "Right"),
                   edit |-> MakeEdit(0, 0, 0, 0), delta |-> 0, fr |-> <<>>,
                   ovf |-> FALSE, status |-> "ok"]))

\* ----------------------------------------------------------- FoldMap::fold
\* The edit fold and unfold hand to apply_edits for the offsets [lo, hi)
TouchEdit(lo, hi) == MakeEdit(lo, hi, lo, hi)

\* The comparison of fold's sort_unstable_by: by old_range.start, then the
\* longer edit first.
EditBefore(a, b) ==
    \/ a.old_range.start < b.old_range.start
    \/ a.old_range.start = b.old_range.start /\ a.old_range.end >= b.old_range.end

RECURSIVE InsertSorted(_, _)
InsertSorted(sorted, e) ==
    IF sorted = <<>> THEN <<e>>
    ELSE IF EditBefore(Head(sorted), e) THEN <<Head(sorted)>> \o InsertSorted(Tail(sorted), e)
    ELSE <<e>> \o sorted

RECURSIVE SortEdits(_)
SortEdits(edits) ==
    IF edits = <<>> THEN <<>>
    ELSE InsertSorted(SortEdits(SubSeq(edits, 1, Len(edits) - 1)), edits[Len(edits)])

WithFolds(ap, fs) ==
    [folds |-> fs, transforms |-> ap.transforms, status |-> ap.status, ovf |-> ap.ovf]

\* The end of fold and of unfold: self.apply_edits(&edits, app)? with the
\* edits gathered (fold sorts them first), unless the loop over the ranges
\* has already returned an Err.  up = [folds, edits, status].
Rebuild(ts, text, up, sorted) ==
    IF up.status # "ok"
    THEN [folds |-> up.folds, transforms |-> ts, status |-> up.status, ovf |-> FALSE]
    ELSE WithFolds(ApplyEdits(ts, up.folds, text, IF sorted THEN SortEdits(up.edits) ELSE up.edits),
                   up.folds)

\* A fold anchored with the biases pointing outward
FoldAnchorsOutward(start, end) == [start |-> AnchorBefore(start), end |-> AnchorAfter(end)]

\* The loop over the ranges: each is pushed as an edit and inserted into
\* `folds` at the index the binary search gives.  It stops at the first
\* range the buffer rejects, with the folds inserted so far.
\* buffer.anchor_after(start)?..buffer.anchor_before(end)?
FoldAnchors(start, end) == [start |-> AnchorAfter(start), end |-> AnchorBefore(end)]

\* The loop over the ranges with each fold put at the front of `folds`
RECURSIVE InsertFoldsAtFront(_, _, _, _)
InsertFoldsAtFront(folds, text, ranges, edits) ==
    IF ranges = <<>> THEN [folds |-> folds, edits |-> edits, status |-> "ok"]
    ELSE IF Head(ranges)[1] > BufferLen(text) \/ Head(ranges)[2] > BufferLen(text)
    THEN [folds |-> folds, edits |-> edits, status |-> "err"]
    ELSE InsertFoldsAtFront(InsertAt(folds, 0, FoldAnchors(Head(ranges)[1], Head(ranges)[2])),
                            text, Tail(ranges),
                            Append(edits, TouchEdit(Head(ranges)[1], Head(ranges)[2])))

RECURSIVE InsertFolds(_, _, _, _)
InsertFolds(folds, text, ranges, edits) ==
    IF ranges = <<>> THEN [folds |-> folds, edits |-> edits, status |-> "ok"]
    ELSE LET start == Head(ranges)[1]
             end == Head(ranges)[2]
             fold == FoldAnchors(start, end)
             ix == FindInsertionIndex([k \in 1..Len(folds) |-> AnchorRangeCmp(folds[k], fold)])
         IN IF start > BufferLen(text) \/ end > BufferLen(text)
            THEN [folds |-> folds, edits |-> edits, status |-> "err"]
            ELSE InsertFolds(InsertAt(folds, ix, fold), text, Tail(ranges),
                             Append(edits, TouchEdit(start, end)))

\* FoldMap::fold(ranges): the map's folds and transforms after the call.
Fold(folds, ts, text, ranges) ==
    Rebuild(ts, text, InsertFolds(folds, text, ranges, <<>>), TRUE)

\* --------------------------------------------------------- FoldMap::unfold
\* The retain closure with each comparison against the other end of the range
RetainedSwapped(fold, start, end) ==
    AnchorCmp(fold.start, start) > 0 \/ AnchorCmp(fold.end, end) < 0

\* The retain closure: a fold stays when it starts after the range's end
\* anchor or ends before its start anchor.
Retained(fold, start, end) ==
    AnchorCmp(fold.start, end) > 0 \/ AnchorCmp(fold.end, start) < 0

SelectSeq2(seq, Keep(_)) ==
    LET F[i \in 0..Len(seq)] ==
            IF i = 0 THEN <<>>
            ELSE IF Keep(seq[i]) THEN Append(F[i - 1], seq[i]) ELSE F[i - 1]
    IN F[Len(seq)]

RECURSIVE RemoveFolds(_, _, _, _)
RemoveFolds(folds, text, ranges, edits) ==
    IF ranges = <<>> THEN [folds |-> folds, edits |-> edits, status |-> "ok"]
    ELSE LET start == AnchorBefore(Head(ranges)[1])
             end == AnchorAfter(Head(ranges)[2])
             KeepIt(f) == Retained(f, start, end)
             DropIt(f) == ~Retained(f, start, end)
             gone == SelectSeq2(folds, DropIt)
             more == [k \in 1..Len(gone) |->
                         TouchEdit(AnchorOffset(gone[k].start), AnchorOffset(gone[k].end))]
         IN IF Head(ranges)[1] > BufferLen(text) \/ Head(ranges)[2] > BufferLen(text)
            THEN [folds |-> folds, edits |-> edits, status |-> "err"]
            ELSE RemoveFolds(SelectSeq2(folds, KeepIt), text, Tail(ranges), edits \o more)

\* FoldMap::unfold(ranges): the map's folds and transforms after the call.
Unfold(folds, ts, text, ranges) ==
    Rebuild(ts, text, RemoveFolds(folds, text, ranges, <<>>), FALSE)

\* --------------------------------------------------------- buffer edits
\* The folds' anchors as they resolve after buffer.edit(ranges, new_text)
MovedFolds(folds, ranges, n) ==
    [k \in 1..Len(folds) |->
        [start |-> AnchorAfterEdit(folds[k].start, ranges, n),
         end |-> AnchorAfterEdit(folds[k].end, ranges, n)]]

WithText(r, t) ==
    [text |-> t, folds |-> r.folds, transforms |-> r.transforms, status |-> r.status, ovf |-> r.ovf]

\* buffer.edit(ranges, new_text) followed by the map's
\* apply_edits(buffer.edits_since(version before the edit))
EditAndApply(folds, ts, text, ranges, new_text) ==
    WithText(WithFolds(ApplyEdits(ts, MovedFolds(folds, ranges, Len(new_text)),
                                  EditText(text, ranges, new_text),
                                  EditsSince(ranges, Len(new_text))),
                       MovedFolds(folds, ranges, Len(new_text))),
             EditText(text, ranges, new_text))

\* ------------------------------------------------------------------ queries
\* FoldMap::len
DisplayLen(ts) == TreeSummary(ts).display.chars

\* FoldMap::max_point
MaxPoint(ts) == TreeSummary(ts).display.lines

\* to_display_point without the min against the transform's display end
ToDisplayPointUnclamped(ts, point) ==
    LET pos == Seek(ts, "Point", point, "Right")
        overshoot == PointSub(point, CursorStart(ts, pos).buffer.lines)
    IN PointAdd(CursorStart(ts, pos).display.lines, overshoot)

\* FoldMap::to_display_point
ToDisplayPoint(ts, point) ==
    LET pos == Seek(ts, "Point", point, "Right")
        overshoot == PointSub(point, CursorStart(ts, pos).buffer.lines)
    IN PointMin(PointAdd(CursorStart(ts, pos).display.lines, overshoot),
                CursorEnd(ts, pos).display.lines)

\* to_buffer_point seeking with SeekBias::Left
ToBufferPointLeft(ts, display_point) ==
    LET pos == Seek(ts, "DisplayPoint", display_point, "Left")
        overshoot == PointSub(display_point, CursorStart(ts, pos).display.lines)
    IN PointAdd(CursorStart(ts, pos).buffer.lines, overshoot)

\* FoldMap::to_buffer_point
ToBufferPoint(ts, display_point) ==
    LET pos == Seek(ts, "DisplayPoint", display_point, "Right")
        overshoot == PointSub(display_point, CursorStart(ts, pos).display.lines)
    IN PointAdd(CursorStart(ts, pos).buffer.lines, overshoot)

\* to_display_offset seeking with SeekBias::Left
ToDisplayOffsetLeft(ts, text, point) ==
    LET pos == Seek(ts, "DisplayPoint", point, "Left")
        start == CursorStart(ts, pos)
        overshoot == PointSub(point, start.display.lines)
        end_buffer_offset == PointToOffset(text, PointAdd(start.buffer.lines, overshoot))
    IN IF overshoot = PointZero THEN [status |-> "ok", offset |-> start.display.chars]
       ELSE IF ~HasItem(ts, pos) THEN [status |-> "err", offset |-> 0]
       ELSE IF IsFold(ts[pos]) THEN [status |-> "assert", offset |-> 0]
       ELSE IF end_buffer_offset < 0 THEN [status |-> "err", offset |-> 0]
       ELSE [status |-> "ok",
             offset |-> start.display.chars + USub(end_buffer_offset, start.buffer.chars)]

\* FoldMap::to_display_offset: status "ok" with the offset, "err" for an
\* Err, "assert" when the assertion on the reached transform fails.
ToDisplayOffset(ts, text, point) ==
    LET pos == Seek(ts, "DisplayPoint", point, "Right")
        start == CursorStart(ts, pos)
        overshoot == PointSub(point, start.display.lines)
        end_buffer_offset == PointToOffset(text, PointAdd(start.buffer.lines, overshoot))
    IN IF overshoot = PointZero THEN [status |-> "ok", offset |-> start.display.chars]
       ELSE IF ~HasItem(ts, pos) THEN [status |-> "err", offset |-> 0]
       ELSE IF IsFold(ts[pos]) THEN [status |-> "assert", offset |-> 0]
       ELSE IF end_buffer_offset < 0 THEN [status |-> "err", offset |-> 0]
       ELSE [status |-> "ok",
             offset |-> start.display.chars + USub(end_buffer_offset, start.buffer.chars)]

\* Chars::next on the iterator it = [cur, offset, buffer_chars]: the
\* iterator after the call and the character it yields (c = "None" at the
\* end).  status "diverges": the call recurses without end, the sub-iterator
\* it opens being empty short of the transform's end; "panic": the buffer
\* has no character at the offset asked.
RECURSIVE CharsNext(_, _, _)
CharsNext(ts, text, it) ==
    IF it.buffer_chars # <<>>
    THEN [it |-> [it EXCEPT !.offset = @ + 1, !.buffer_chars = Tail(@)],
          c |-> Head(it.buffer_chars), status |-> "ok"]
    ELSE LET cur1 == IF it.offset = CursorEnd(ts, it.cur).display.chars
                     THEN CursorNext(ts, it.cur) ELSE it.cur
             start == CursorStart(ts, cur1)
             overshoot == USub(it.offset, start.display.chars)
             buffer_start == start.buffer.chars + overshoot
             char_count == USub(CursorEnd(ts, cur1).buffer.chars, buffer_start)
             taken == TextSlice(text, buffer_start, Min(Len(text), buffer_start + char_count))
             moved == [it EXCEPT !.cur = cur1]
         IN IF ~HasItem(ts, cur1) THEN [it |-> moved, c |-> "None", status |-> "ok"]
            ELSE IF IsFold(ts[cur1])
                 THEN [it |-> [moved EXCEPT !.offset = @ + 1],
                       c |-> ts[cur1].display_text, status |-> "ok"]
            ELSE IF buffer_start > Len(text) THEN [it |-> moved, c |-> "None", status |-> "panic"]
            ELSE IF taken = <<>> /\ it.offset # CursorEnd(ts, cur1).display.chars
                 THEN [it |-> moved, c |-> "None", status |-> "diverges"]
            ELSE CharsNext(ts, text, [moved EXCEPT !.buffer_chars = taken])

\* collect() over the iterator
RECURSIVE CharsCollect(_, _, _, _)
CharsCollect(ts, text, it, acc) ==
    LET n == CharsNext(ts, text, it)
    IN IF n.status # "ok" THEN [text |-> acc, status |-> n.status]
       ELSE IF n.c = "None" THEN [text |-> acc, status |-> "ok"]
       ELSE CharsCollect(ts, text, n.it, Append(acc, n.c))

\* FoldMap::chars_at(point).collect()
CharsAt(ts, text, point) ==
    LET off == ToDisplayOffset(ts, text, point)
        cur == Seek(ts, "DisplayOffset", off.offset, "Right")
    IN IF off.status # "ok" THEN [text |-> <<>>, status |-> off.status]
       ELSE CharsCollect(ts, text, [cur |-> cur, offset |-> off.offset, buffer_chars |-> <<>>], <<>>)

\* The tests' FoldMap::text
DisplayText(ts, text) == CharsAt(ts, text, PointZero)

\* is_line_folded looking at the first transform only
LineFoldedHere(ts, pos, display_row) == HasItem(ts, pos) /\ IsFold(ts[pos])

\* FoldMap::is_line_folded
RECURSIVE LineFoldedFrom(_, _, _)
LineFoldedFrom(ts, pos, display_row) ==
    IF ~HasItem(ts, pos) THEN FALSE
    ELSE IF IsFold(ts[pos]) THEN TRUE
    ELSE IF CursorEnd(ts, pos).display.lines.row = display_row
         THEN LineFoldedFrom(ts, CursorNext(ts, pos), display_row)
         ELSE FALSE

IsLineFolded(ts, display_row) ==
    LineFoldedFrom(ts, Seek(ts, "DisplayPoint", Point(display_row, 0), "Right"), display_row)

\* BufferRows::next, the loop that moves the cursor on while display_point
\* lies past the end of its transform: the cursor's position after it.
RECURSIVE BufferRowsSkip(_, _, _)
BufferRowsSkip(ts, pos, display_point) ==
    IF PointCmp(display_point, CursorEnd(ts, pos).display.lines) > 0
    THEN IF HasItem(ts, CursorNext(ts, pos))
         THEN BufferRowsSkip(ts, CursorNext(ts, pos), display_point)
         ELSE CursorNext(ts, pos)
    ELSE pos

\* The buffer row BufferRows::next yields with the cursor at pos
BufferRowAt(ts, pos, display_point) ==
    PointAdd(CursorStart(ts, pos).buffer.lines,
             PointSub(display_point, CursorStart(ts, pos).display.lines)).row

\* The rows BufferRows yields until next returns None
RECURSIVE BufferRowsCollect(_, _, _)
BufferRowsCollect(ts, pos, display_point) ==
    LET at == BufferRowsSkip(ts, pos, display_point)
    IN IF HasItem(ts, at)
       THEN <<BufferRowAt(ts, at, display_point)>>
            \o BufferRowsCollect(ts, at, Point(display_point.row + 1, display_point.column))
       ELSE <<>>

\* buffer_rows refusing the last display row as well
BufferRowsShort(ts, start_row) ==
    IF start_row >= TreeSummary(ts).display.lines.row
    THEN [status |-> "err", rows |-> <<>>]
    ELSE [status |-> "ok",
          rows |-> BufferRowsCollect(ts, Seek(ts, "DisplayPoint", Point(start_row, 0), "Left"),
                                     Point(start_row, 0))]

\* FoldMap::buffer_rows(start_row), collected: status "err" for the Err
BufferRows(ts, start_row) ==
    IF start_row > TreeSummary(ts).display.lines.row
    THEN [status |-> "err", rows |-> <<>>]
    ELSE [status |-> "ok",
          rows |-> BufferRowsCollect(ts, Seek(ts, "DisplayPoint", Point(start_row, 0), "Left"),
                                     Point(start_row, 0))]

\* FoldMap::line_len(row): status "ok" with the length, "err" for an Err of
\* to_display_offset, "assert" for its assertion; ovf when a subtraction
\* underflows.
LineEnd(ts, text, row) ==
    IF row >= MaxPoint(ts).row
    THEN [status |-> "ok", offset |-> DisplayLen(ts), ovf |-> FALSE]
    ELSE LET next == ToDisplayOffset(ts, text, Point(row + 1, 0))
         IN [status |-> next.status, offset |-> USub(next.offset, 1),
             ovf |-> Underflows(next.offset, 1)]

LineLen(ts, text, row) ==
    LET line_start == ToDisplayOffset(ts, text, Point(row, 0))
        line_end == LineEnd(ts, text, row)
    IN IF line_start.status # "ok" THEN [status |-> line_start.status, len |-> 0, ovf |-> FALSE]
       ELSE IF line_end.status # "ok" THEN [status |-> line_end.status, len |-> 0, ovf |-> FALSE]
       ELSE [status |-> "ok", len |-> USub(line_end.offset, line_start.offset),
             ovf |-> line_end.ovf \/ Underflows(line_end.offset, line_start.offset)]

\* ---------------------------------------------------------------- panes
\* A Pane: its items, each the entry its view shows, and the index of the
\* active one
NewPane == [items |-> <<>>, active_item |-> 0]

RemoveAt(seq, ix) == SubSeq(seq, 1, ix) \o SubSeq(seq, ix + 2, Len(seq))

\* Pane::activate_item
ActivateItem(pane, index) ==
    IF index < Len(pane.items) THEN [pane EXCEPT !.active_item = index] ELSE pane

\* Pane::add_item: the pane, the index the item went to, and whether
\* active_item + 1 overflowed
AddItem(pane, item) ==
    LET item_idx == Min((pane.active_item + 1) % USize, Len(pane.items))
    IN [pane |-> [pane EXCEPT !.items = InsertAt(pane.items, item_idx, item)],
        item_idx |-> item_idx,
        ovf |-> pane.active_item + 1 >= USize]

\* The index of the first item of the pane showing the entry, -1 if none
EntryPosition(pane, entry_id) ==
    IF \E i \in 1..Len(pane.items) : pane.items[i] = entry_id
    THEN (CHOOSE i \in 1..Len(pane.items) :
              /\ pane.items[i] = entry_id
              /\ \A j \in 1..(i - 1) : pane.items[j] # entry_id) - 1
    ELSE -1

\* Pane::activate_entry: the pane and the bool it returns
ActivateEntry(pane, entry_id) ==
    IF EntryPosition(pane, entry_id) >= 0
    THEN [pane |-> ActivateItem(pane, EntryPosition(pane, entry_id)), found |-> TRUE]
    ELSE [pane |-> pane, found |-> FALSE]

\* Pane::activate_prev_item
ActivatePrevItem(pane) ==
    IF pane.active_item > 0
    THEN [pane |-> [pane EXCEPT !.active_item = pane.active_item - 1], ovf |-> FALSE]
    ELSE [pane |-> [pane EXCEPT !.active_item = USub(Len(pane.items), 1)],
          ovf |-> Underflows(Len(pane.items), 1)]

\* Pane::activate_next_item
ActivateNextItem(pane) ==
    [pane |-> IF (pane.active_item + 1) % USize < Len(pane.items)
              THEN [pane EXCEPT !.active_item = (pane.active_item + 1) % USize]
              ELSE [pane EXCEPT !.active_item = 0],
     ovf |-> pane.active_item + 1 >= USize]

\* Pane::close_active_item: the pane, whether Vec::remove was given an index
\* past the end, and whether Event::Remove is emitted
CloseActiveItem(pane) ==
    IF pane.items = <<>> THEN [pane |-> pane, panic |-> FALSE, remove |-> TRUE]
    ELSE IF pane.active_item >= Len(pane.items)
    THEN [pane |-> pane, panic |-> TRUE, remove |-> FALSE]
    ELSE LET items == RemoveAt(pane.items, pane.active_item)
         IN [pane |-> [items |-> items,
                       active_item |-> IF pane.active_item >= Len(items)
                                       THEN Max(Len(items) - 1, 0)
                                       ELSE pane.active_item],
             panic |-> FALSE,
             remove |-> items = <<>>]

\* ----------------------------------------------------------- pane groups
SplitDirections == {"Up", "Down", "Left", "Right"}

PaneMember(pane_id) == [kind |-> "Pane", pane_id |-> pane_id]
AxisMember(axis, members) == [kind |-> "Axis", axis |-> axis, members |-> members]

\* PaneGroup::new
NewPaneGroup(pane_id) == PaneMember(pane_id)

\* SplitDirection::matches_axis
MatchesAxis(direction, axis) ==
    IF direction \in {"Up", "Down"} THEN axis = "Vertical" ELSE axis = "Horizontal"

\* Member::new_axis
NewAxis(old_pane_id, new_pane_id, direction) ==
    AxisMember(IF direction \in {"Up", "Down"} THEN "Vertical" ELSE "Horizontal",
               IF direction \in {"Up", "Left"}
               THEN <<PaneMember(new_pane_id), PaneMember(old_pane_id)>>
               ELSE <<PaneMember(old_pane_id), PaneMember(new_pane_id)>>)

\* PaneAxis::split, from the member at idx on: the axis and whether the pane
\* was found
RECURSIVE AxisSplitFrom(_, _, _, _, _)
AxisSplitFrom(axis, idx, old_pane_id, new_pane_id, direction) ==
    IF idx >= Len(axis.members) THEN [ok |-> FALSE, axis |-> axis]
    ELSE LET member == axis.members[idx + 1]
             inner == AxisSplitFrom(member, 0, old_pane_id, new_pane_id, direction)
         IN IF member.kind = "Axis"
            THEN IF inner.ok
                 THEN [ok |-> TRUE,
                       axis |-> [axis EXCEPT !.members[idx + 1] = inner.axis]]
                 ELSE AxisSplitFrom(axis, idx + 1, old_pane_id, new_pane_id, direction)
            ELSE IF member.pane_id = old_pane_id
                 THEN [ok |-> TRUE,
                       axis |->
                         IF MatchesAxis(direction, axis.axis)
                         THEN [axis EXCEPT !.members =
                                 InsertAt(axis.members,
                                          IF direction \in {"Up", "Left"} THEN idx ELSE idx + 1,
                                          PaneMember(new_pane_id))]
                         ELSE [axis EXCEPT !.members[idx + 1] =
                                 NewAxis(old_pane_id, new_pane_id, direction)]]
                 ELSE AxisSplitFrom(axis, idx + 1, old_pane_id, new_pane_id, direction)

AxisSplit(axis, old_pane_id, new_pane_id, direction) ==
    AxisSplitFrom(axis, 0, old_pane_id, new_pane_id, direction)

\* A split that reaches no further than a root that is a single pane
GroupSplitRootOnly(root, old_pane_id, new_pane_id, direction) ==
    IF root.kind = "Pane" /\ root.pane_id = old_pane_id
    THEN [ok |-> TRUE, root |-> NewAxis(old_pane_id, new_pane_id, direction)]
    ELSE [ok |-> TRUE, root |-> root]

\* PaneGroup::split: the group and whether it returned Ok
GroupSplit(root, old_pane_id, new_pane_id, direction) ==
    IF root.kind = "Pane"
    THEN IF root.pane_id = old_pane_id
         THEN [ok |-> TRUE, root |-> NewAxis(old_pane_id, new_pane_id, direction)]
         ELSE [ok |-> FALSE, root |-> root]
    ELSE [ok |-> AxisSplit(root, old_pane_id, new_pane_id, direction).ok,
          root |-> AxisSplit(root, old_pane_id, new_pane_id, direction).axis]

\* What PaneAxis::remove returns once its loop has found the pane: the last
\* member left, if only one is
AxisRemoved(axis) ==
    IF Len(axis.members) = 1
    THEN [ok |-> TRUE, last |-> <<axis.members[1]>>, axis |-> [axis EXCEPT !.members = <<>>]]
    ELSE [ok |-> TRUE, last |-> <<>>, axis |-> axis]

\* PaneAxis::remove, from the member at idx on: whether the pane was found,
\* the axis, and the last member as a list of none or one
RECURSIVE AxisRemoveFrom(_, _, _)
AxisRemoveFrom(axis, idx, pane_id_to_remove) ==
    IF idx >= Len(axis.members) THEN [ok |-> FALSE, last |-> <<>>, axis |-> axis]
    ELSE LET member == axis.members[idx + 1]
             inner == AxisRemoveFrom(member, 0, pane_id_to_remove)
         IN IF member.kind = "Axis"
            THEN IF inner.ok
                 THEN AxisRemoved([axis EXCEPT !.members[idx + 1] =
                                     IF inner.last # <<>> THEN inner.last[1] ELSE inner.axis])
                 ELSE AxisRemoveFrom(axis, idx + 1, pane_id_to_remove)
            ELSE IF member.pane_id = pane_id_to_remove
                 THEN AxisRemoved([axis EXCEPT !.members = RemoveAt(axis.members, idx)])
                 ELSE AxisRemoveFrom(axis, idx + 1, pane_id_to_remove)

AxisRemove(axis, pane_id_to_remove) == AxisRemoveFrom(axis, 0, pane_id_to_remove)

\* A remove that takes every group for a single pane
GroupRemoveNever(root, pane_id) == [status |-> "false", root |-> root]

\* PaneGroup::remove: "false" and "true" for Ok(false) and Ok(true), "err"
\* when the axis does not hold the pane
GroupRemove(root, pane_id) ==
    IF root.kind = "Pane" THEN [status |-> "false", root |-> root]
    ELSE LET r == AxisRemove(root, pane_id)
         IN IF ~r.ok THEN [status |-> "err", root |-> root]
            ELSE [status |-> "true", root |-> IF r.last # <<>> THEN r.last[1] ELSE r.axis]

\* The pane ids a member holds, in order
RECURSIVE MemberPanes(_)
MemberPanes(member) ==
    IF member.kind = "Pane" THEN <<member.pane_id>>
    ELSE IF member.members = <<>> THEN <<>>
    ELSE MemberPanes(member.members[1])
             \o MemberPanes([member EXCEPT !.members = Tail(member.members)])

Entries == 1..MaxEntries

\* WorkspaceView::new: one empty pane, active, alone in the pane group
NewWorkspaceView ==
    [panes |-> <<1>>,
     active_pane |-> 1,
     center |-> NewPaneGroup(1),
     pane_views |-> [p \in {1} |-> NewPane],
     loading_entries |-> {},
     tasks |-> [e \in Entries |-> 0],
     next_pane_id |-> 2,
     panic |-> FALSE,
     ovf |-> FALSE]

\* ------------------------------------------------------- the workspace view
\* The WorkspaceView as a record: panes (their view ids, in the order of the
\* Vec), active_pane, center, the Pane behind each id, loading_entries, the
\* loads spawned and not yet finished per entry, and the id the next pane
\* gets.  `panic` and `ovf` tell whether a call panicked and whether an
\* index addition or subtraction wrapped in one.

\* WorkspaceView::add_item
ViewAddItem(w, item) ==
    LET r == AddItem(w.pane_views[w.active_pane], item)
    IN [w EXCEPT !.pane_views[w.active_pane] = ActivateItem(r.pane, r.item_idx),
                 !.ovf = w.ovf \/ r.ovf]

\* open_entry without its look at loading_entries
OpenEntryUnguarded(w, entry, accepted) ==
    IF ActivateEntry(w.pane_views[w.active_pane], entry).found
    THEN [w EXCEPT !.pane_views[w.active_pane] =
                       ActivateEntry(w.pane_views[w.active_pane], entry).pane]
    ELSE [w EXCEPT !.loading_entries = w.loading_entries \cup {entry},
                   !.tasks[entry] = IF accepted THEN w.tasks[entry] + 1 ELSE w.tasks[entry]]

\* WorkspaceView::open_entry; `accepted` tells whether Workspace::open_entry
\* returned the load's future rather than an error
OpenEntry(w, entry, accepted) ==
    IF entry \in w.loading_entries THEN w
    ELSE IF ActivateEntry(w.pane_views[w.active_pane], entry).found
    THEN [w EXCEPT !.pane_views[w.active_pane] =
                       ActivateEntry(w.pane_views[w.active_pane], entry).pane]
    ELSE [w EXCEPT !.loading_entries = w.loading_entries \cup {entry},
                   !.tasks[entry] = IF accepted THEN w.tasks[entry] + 1 ELSE w.tasks[entry]]

\* The callback open_entry spawned, run when the load of the entry ends;
\* `loaded` tells whether it ended with an item
LoadDone(w, entry, loaded) ==
    LET done == [w EXCEPT !.loading_entries = w.loading_entries \ {entry},
                          !.tasks[entry] = w.tasks[entry] - 1]
    IN IF loaded THEN ViewAddItem(done, entry) ELSE done

\* WorkspaceView::remove_pane
RemovePane(w, pane_id) ==
    LET removed == GroupRemove(w.center, pane_id)
        left == SelectSeq(w.panes, LAMBDA p : p # pane_id)
    IN IF removed.status = "err" THEN [w EXCEPT !.panic = TRUE]
       ELSE IF removed.status = "false" THEN w
       ELSE IF left = <<>> THEN [w EXCEPT !.panic = TRUE]
       ELSE [w EXCEPT !.center = removed.root,
                      !.panes = left,
                      !.active_pane = left[Len(left)],
                      !.pane_views = [p \in (DOMAIN w.pane_views) \ {pane_id} |-> w.pane_views[p]]]

\* "pane:close_active_item" on the pane, and the Remove event it may emit
\* handled by handle_pane_event
CloseItem(w, pane_id) ==
    LET r == CloseActiveItem(w.pane_views[pane_id])
        closed == [w EXCEPT !.pane_views[pane_id] = r.pane, !.panic = r.panic]
    IN IF r.remove THEN RemovePane(closed, pane_id) ELSE closed

\* WorkspaceView::add_pane
AddPane(w) ==
    [w EXCEPT !.panes = Append(w.panes, w.next_pane_id),
              !.active_pane = w.next_pane_id,
              !.pane_views = [p \in (DOMAIN w.pane_views) \cup {w.next_pane_id} |->
                                 IF p = w.next_pane_id THEN NewPane ELSE w.pane_views[p]],
              !.next_pane_id = w.next_pane_id + 1]

\* WorkspaceView::split_pane, for the Split event of the pane; `cloned`
\* tells whether the active item's clone_on_split gave a clone
SplitPane(w, pane_id, direction, cloned) ==
    LET pane == w.pane_views[pane_id]
        added == AddPane(w)
        filled == IF pane.active_item < Len(pane.items) /\ cloned
                  THEN ViewAddItem(added, pane.items[pane.active_item + 1])
                  ELSE added
        split == GroupSplit(w.center, pane_id, w.next_pane_id, direction)
    IN IF split.ok THEN [filled EXCEPT !.center = split.root]
       ELSE [filled EXCEPT !.panic = TRUE]

\* An item of the pane emits its activate event: the subscription of
\* set_parent_pane activates the item and the pane
ItemActivated(w, pane_id, ix) ==
    [w EXCEPT !.pane_views[pane_id] = ActivateItem(w.pane_views[pane_id], ix),
              !.active_pane = pane_id]

\* ------------------------------------------------------------------ state
VARIABLES
    text,        \* the buffer's text
    folds,       \* FoldMap.folds: anchor ranges
    transforms,  \* FoldMap.transforms
    failure,     \* "none", "panic" once a call has panicked, "wrapped" once
                 \* one has gone on with a wrapped subtraction
    workspace_view  \* the WorkspaceView and its panes

vars == <<text, folds, transforms, failure, workspace_view>>

RECURSIVE TextsOfLen(_)
TextsOfLen(n) ==
    IF n = 0 THEN {<<>>}
    ELSE {Append(t, c) : t \in TextsOfLen(n - 1), c \in InitAlphabet}

InitTexts == UNION {TextsOfLen(n) : n \in 0..MaxLen}

\* FoldMap::new over a fresh buffer
NewTransforms(t) == <<Passthrough(TextSummaryOf(t))>>

Init ==
    /\ text \in InitTexts
    /\ folds = <<>>
    /\ transforms = NewTransforms(text)
    /\ failure = "none"
    /\ workspace_view = NewWorkspaceView

\* The offset ranges lo..hi of a buffer of n characters
Ranges(n) == {<<lo, hi>> : lo \in 0..n, hi \in 0..n} \cap {r \in (0..n) \X (0..n) : r[1] <= r[2]}

\* The range lists a fold or unfold call is given: one range or two
RangeLists(n) == {<<r>> : r \in Ranges(n)} \cup {<<r, q>> : r \in Ranges(n), q \in Ranges(n)}

\* The range lists of a buffer.edit call: ascending and apart
EditRangeLists(n) ==
    {<<r>> : r \in Ranges(n)} \cup
    {rs \in {<<r, q>> : r \in Ranges(n), q \in Ranges(n)} : rs[1][2] < rs[2][1]}

\* What a call leaves behind.  A call that hits the assertion or reads past
\* the buffer panics.  One in which a usize subtraction underflowed panics in
\* a build with overflow checks, and in a build without them goes on with
\* the wrapped value and returns: `failure` is then "wrapped", the map holds
\* what the call computed, and the run is followed no further.  An Err
\* leaves the tree as it was.  A call that would leave a tree summing to
\* more than MaxTreeChars buffer characters is not made.
Outcome(r) ==
    /\ BufferCharsOf(r.transforms) <= MaxTreeChars
    /\ failure' \in (IF r.status \in {"assert", "range"} THEN {"panic"}
                     ELSE IF r.ovf THEN {"panic", "wrapped"}
                     ELSE {"none"})
    /\ folds' = IF failure' = "panic" THEN folds ELSE r.folds
    /\ transforms' = IF failure' = "panic" THEN transforms ELSE r.transforms
    /\ UNCHANGED workspace_view

\* map.fold(ranges) on a map left with at most `limit` folds
FoldCall(limit) ==
    /\ failure = "none"
    /\ \E ranges \in RangeLists(Len(text)) :
         /\ Len(folds) + Len(ranges) <= limit
         /\ Outcome(Fold(folds, transforms, text, ranges))
    /\ UNCHANGED text

FoldAction == FoldCall(MaxFolds)

UnfoldAction ==
    /\ failure = "none"
    /\ \E ranges \in {<<r>> : r \in Ranges(Len(text))} :
         Outcome(Unfold(folds, transforms, text, ranges))
    /\ UNCHANGED text

\* The buffer.edit calls the model makes on the text t: those that change
\* it and leave it no longer than MaxLen.
EditCalls(t) ==
    {call \in EditRangeLists(Len(t)) \X InsertTexts :
        /\ \E k \in 1..Len(call[1]) : call[1][k][1] < call[1][k][2] \/ call[2] # <<>>
        /\ Len(EditText(t, call[1], call[2])) <= MaxLen}

EditOutcome(r) ==
    /\ text' = r.text
    /\ Outcome(r)

EditAction ==
    /\ failure = "none"
    /\ \E call \in EditCalls(text) :
         EditOutcome(EditAndApply(folds, transforms, text, call[1], call[2]))

Next == FoldAction \/ UnfoldAction \/ EditAction

Spec == Init /\ [][Next]_vars

\* The map over a buffer nobody edits: fold and unfold calls alone, with
\* room for one fold more.
FoldNoEdit == FoldCall(MaxFoldsNoEdit)

NextNoEdit == FoldNoEdit \/ UnfoldAction

SpecNoEdit == Init /\ [][NextNoEdit]_vars

\* --------------------------------------------------- the workspace's steps
\* What a call on the view leaves behind.  A call that panics ends the
\* application: the view is kept as it was, marked.  One in which an index
\* addition or subtraction wrapped panics in a build with overflow checks;
\* in a build without them it goes on with the wrapped value, the view
\* holds what the call computed, marked, and the run is followed no further.
ViewOutcome(w) ==
    /\ workspace_view' \in
         (IF w.panic THEN {[workspace_view EXCEPT !.panic = TRUE]}
          ELSE IF w.ovf THEN {[workspace_view EXCEPT !.panic = TRUE], w}
          ELSE {w})
    /\ UNCHANGED <<text, folds, transforms, failure>>

\* No call on the view has panicked or wrapped
Running == ~workspace_view.panic /\ ~workspace_view.ovf

OpenEntryAction ==
    /\ Running
    /\ \E entry \in Entries, accepted \in BOOLEAN :
         ViewOutcome(OpenEntry(workspace_view, entry, accepted))

\* A load ends.  One that would leave the active pane with more than
\* MaxItems items is not followed.
LoadDoneAction ==
    /\ Running
    /\ \E entry \in Entries, loaded \in BOOLEAN :
         /\ workspace_view.tasks[entry] > 0
         /\ loaded => Len(workspace_view.pane_views[workspace_view.active_pane].items) < MaxItems
         /\ ViewOutcome(LoadDone(workspace_view, entry, loaded))

CloseItemAction ==
    /\ Running
    /\ \E i \in 1..Len(workspace_view.panes) :
         ViewOutcome(CloseItem(workspace_view, workspace_view.panes[i]))

\* "pane:split_up" and the like, until MaxPaneId is given out
SplitAction ==
    /\ Running
    /\ workspace_view.next_pane_id <= MaxPaneId
    /\ \E i \in 1..Len(workspace_view.panes), direction \in SplitDirections, cloned \in BOOLEAN :
         ViewOutcome(SplitPane(workspace_view, workspace_view.panes[i], direction, cloned))

ItemActivatedAction ==
    /\ Running
    /\ \E i \in 1..Len(workspace_view.panes) :
         \E ix \in 0..(Len(workspace_view.pane_views[workspace_view.panes[i]].items) - 1) :
            ViewOutcome(ItemActivated(workspace_view, workspace_view.panes[i], ix))

\* "pane:activate_item", "pane:activate_prev_item", "pane:activate_next_item"
PaneAction(pane_id, r) ==
    ViewOutcome([workspace_view EXCEPT !.pane_views[pane_id] = r.pane, !.ovf = r.ovf])

ActivateItemAction ==
    /\ Running
    /\ \E i \in 1..Len(workspace_view.panes), index \in 0..MaxItems :
         PaneAction(workspace_view.panes[i],
                    [pane |-> ActivateItem(workspace_view.pane_views[workspace_view.panes[i]], index),
                     ovf |-> FALSE])

ActivatePrevItemAction ==
    /\ Running
    /\ \E i \in 1..Len(workspace_view.panes) :
         PaneAction(workspace_view.panes[i],
                    ActivatePrevItem(workspace_view.pane_views[workspace_view.panes[i]]))

ActivateNextItemAction ==
    /\ Running
    /\ \E i \in 1..Len(workspace_view.panes) :
         PaneAction(workspace_view.panes[i],
                    ActivateNextItem(workspace_view.pane_views[workspace_view.panes[i]]))

NextView ==
    \/ OpenEntryAction
    \/ LoadDoneAction
    \/ CloseItemAction
    \/ SplitAction
    \/ ItemActivatedAction
    \/ ActivateItemAction
    \/ ActivatePrevItemAction
    \/ ActivateNextItemAction

\* The workspace view alone, over an empty buffer nobody folds
InitView ==
    /\ Init
    /\ text = <<>>

SpecView == InitView /\ [][NextView]_vars

\* The panes' events alone, on panes that hold no item: Split until
\* MaxSplitPaneId is given out, Remove, and Activate
SplitManyAction ==
    /\ Running
    /\ workspace_view.next_pane_id <= MaxSplitPaneId
    /\ \E i \in 1..Len(workspace_view.panes), direction \in SplitDirections :
         ViewOutcome(SplitPane(workspace_view, workspace_view.panes[i], direction, FALSE))

\* pane::Event::Activate of the pane: activate_pane
PaneActivatedAction ==
    /\ Running
    /\ \E i \in 1..Len(workspace_view.panes) :
         ViewOutcome([workspace_view EXCEPT !.active_pane = workspace_view.panes[i]])

NextPanes == SplitManyAction \/ CloseItemAction \/ PaneActivatedAction

SpecPanes == InitView /\ [][NextPanes]_vars

\* The load of one entry ends: the callback handed to ctx.spawn runs
LoadEnds(entry) ==
    /\ LoadDoneAction
    /\ workspace_view.tasks[entry] > 0
    /\ workspace_view'.panic \/ workspace_view'.tasks[entry] < workspace_view.tasks[entry]

\* The workspace view with an executor that runs every spawned task to its
\* end
SpecViewFair == SpecView /\ \A entry \in Entries : WF_vars(LoadEnds(entry))

\* -------------------------------------------------------------- the folds
\* What the entries of `folds` hide, read off the fold list alone.  A
\* character is hidden when some fold's span holds it; a maximal run of
\* hidden characters is one merged span (folds that overlap or touch run
\* together, empty and inverted spans hide nothing).
Live == failure # "panic"

FoldSpan(k) == FoldOffsets(folds[k])

Hidden(o) == \E k \in 1..Len(folds) : FoldSpan(k).start <= o /\ o < FoldSpan(k).end

MergedStarts == {o \in 0..(Len(text) - 1) : Hidden(o) /\ (o = 0 \/ ~Hidden(o - 1))}

MergedEnd(s) ==
    CHOOSE e \in (s + 1)..Len(text) :
        /\ \A o \in s..(e - 1) : Hidden(o)
        /\ e = Len(text) \/ ~Hidden(e)

\* The buffer text from offset o up to hi with each merged span replaced by
\* one ellipsis.
RECURSIVE EllipsizedBetween(_, _)
EllipsizedBetween(o, hi) ==
    IF o >= hi THEN <<>>
    ELSE IF o \in MergedStarts THEN <<Ellipsis>> \o EllipsizedBetween(o + 1, hi)
    ELSE IF Hidden(o) THEN EllipsizedBetween(o + 1, hi)
    ELSE <<text[o + 1]>> \o EllipsizedBetween(o + 1, hi)

Ellipsized == EllipsizedBetween(0, Len(text))

\* Where the ellipsis of the merged span starting at s begins in that text.
EllipsisStart(s) == SummaryOfText(EllipsizedBetween(0, s)).lines

Off(p) == PointToOffset(text, p)

InteriorToFold(p) ==
    \E k \in 1..Len(folds) : FoldSpan(k).start < Off(p) /\ Off(p) < FoldSpan(k).end

InteriorToSpan(p, s) == s < Off(p) /\ Off(p) < MergedEnd(s)

InteriorToMerged(p) == \E s \in MergedStarts : InteriorToSpan(p, s)

RoundTrip(p) == ToBufferPoint(transforms, ToDisplayPoint(transforms, p)) = p

\* ---------------------------------------------------------------- C1
\* C1: after any sequence of fold, unfold and buffer edits, each edit
\* followed by apply_edits, chars_at(DisplayPoint(0,0)) yields the buffer
\* text with every merged span of `folds` replaced by one ellipsis.
C1_DisplayIsEllipsized ==
    Live => DisplayText(transforms, text) = [text |-> Ellipsized, status |-> "ok"]

\* ---------------------------------------------------------------- C2
\* The buffer span [lo, hi) of the k-th transform when the transforms are
\* laid end to end from offset 0.
SpanLo(k) == PrefixSummary(transforms, k - 1).buffer.chars
SpanHi(k) == PrefixSummary(transforms, k).buffer.chars

Tiles ==
    /\ TreeSummary(transforms).buffer.chars = Len(text)
    /\ \A k \in 1..Len(transforms) :
         transforms[k].summary.buffer = TextSummaryForRange(text, SpanLo(k), SpanHi(k))

\* C2: after every completed fold, unfold or apply_edits the buffer summary
\* accumulated over the transforms is the buffer's text summary, and the
\* transforms tile the buffer: each summarises the stretch of text that
\* follows its predecessor's, with no gap and no overlap.
C2_Coverage ==
    Live => TreeSummary(transforms).buffer = TextSummaryOf(text) /\ Tiles

\* ---------------------------------------------------------------- C3
\* C3: for every buffer point p not strictly interior to a fold (a fold's
\* start and end included), to_buffer_point(to_display_point(p)) = p.
C3_RoundTrip ==
    Live => \A p \in BufferPoints(text) : ~InteriorToFold(p) => RoundTrip(p)

\* C3, amended: for every buffer point p not strictly interior to a merged
\* span of folds (the start and the end of the span included),
\* to_buffer_point(to_display_point(p)) = p.
C3_RoundTripMerged ==
    Live => \A p \in BufferPoints(text) : ~InteriorToMerged(p) => RoundTrip(p)

\* C3: a merged span of two characters or more ends short of the buffer's
\* end, and the point at its end goes to the display and comes back.
C3_Witness ==
    /\ failure = "none"
    /\ \E s \in MergedStarts :
         /\ MergedEnd(s) - s >= 2 /\ MergedEnd(s) < Len(text)
         /\ ToDisplayPoint(transforms, OffsetToPoint(text, MergedEnd(s)))
              # OffsetToPoint(text, MergedEnd(s))
         /\ RoundTrip(OffsetToPoint(text, MergedEnd(s)))

\* ---------------------------------------------------------------- C4
\* C4: for every buffer point p strictly interior to a fold,
\* to_display_point(p) = to_display_point(fold.start).
C4_InteriorAtStart ==
    Live => \A k \in 1..Len(folds), p \in BufferPoints(text) :
                FoldSpan(k).start < Off(p) /\ Off(p) < FoldSpan(k).end
                => ToDisplayPoint(transforms, p)
                     = ToDisplayPoint(transforms, OffsetToPoint(text, FoldSpan(k).start))

\* C4, amended: for every buffer point p strictly interior to a merged span
\* of folds, to_display_point(p) is one column to the right of
\* to_display_point(start of the span): where the ellipsis ends, not where
\* it begins.
C4_InteriorPastStart ==
    Live => \A s \in MergedStarts, p \in BufferPoints(text) :
                InteriorToSpan(p, s)
                => ToDisplayPoint(transforms, p)
                     = PointAdd(ToDisplayPoint(transforms, OffsetToPoint(text, s)), Point(0, 1))

\* C4: a fold hides a line break, and a point inside it on the next buffer
\* row is translated.
C4_Witness ==
    /\ failure = "none"
    /\ \E s \in MergedStarts, p \in BufferPoints(text) :
         /\ InteriorToSpan(p, s)
         /\ p.row > OffsetToPoint(text, s).row
         /\ ToDisplayPoint(transforms, p).row = OffsetToPoint(text, s).row

\* ---------------------------------------------------------------- C5
\* C5: to_display_point takes the minimum with cursor.end().display.lines,
\* so every buffer point strictly inside a fold maps to the display point at
\* the end of the fold's ellipsis: on the ellipsis's display row, one column
\* after the column where the ellipsis starts in the display text.
C5_InteriorAtEllipsisEnd ==
    Live => \A s \in MergedStarts, p \in BufferPoints(text) :
                InteriorToSpan(p, s)
                => ToDisplayPoint(transforms, p) = PointAdd(EllipsisStart(s), Point(0, 1))

\* C5: a fold that starts past the beginning of a later row has a point
\* inside it.
C5_Witness ==
    /\ failure = "none"
    /\ \E s \in MergedStarts, p \in BufferPoints(text) :
         /\ InteriorToSpan(p, s)
         /\ EllipsisStart(s).row > 0
         /\ ToDisplayPoint(transforms, p) = PointAdd(EllipsisStart(s), Point(0, 1))

\* ---------------------------------------------------------------- C6
\* What the k-th transform shows: the ellipsis or its stretch of the text.
PerTransform(k) ==
    IF IsFold(transforms[k]) THEN <<Ellipsis>>
    ELSE TextSlice(text, Min(Len(text), SpanLo(k)), Min(Len(text), SpanHi(k)))

RECURSIVE PerTransformText(_)
PerTransformText(k) == IF k = 0 THEN <<>> ELSE PerTransformText(k - 1) \o PerTransform(k)

CharsMatchLen ==
    LET d == DisplayText(transforms, text)
    IN /\ d.status = "ok"
       /\ Len(d.text) = DisplayLen(transforms)
       /\ d.text = PerTransformText(Len(transforms))

\* C6: in every state reachable by fold, unfold and apply_edits the iterator
\* of chars_at(DisplayPoint(0,0)) ends after exactly len() characters: one
\* ellipsis per fold transform and the buffer's characters per passthrough.
C6_CharsYieldLen == Live => CharsMatchLen

\* The same in the states no wrapped subtraction has led to.
CharsYieldLenUnwrapped == failure = "none" => CharsMatchLen

\* ---------------------------------------------------------------- C7
\* C7: for every nonempty merged fold range, is_line_folded of the display
\* row of to_display_point(range.start) is true.
C7_FoldedLine ==
    Live => \A s \in MergedStarts :
                IsLineFolded(transforms, ToDisplayPoint(transforms, OffsetToPoint(text, s)).row)

\* C7: a fold starts in the middle of a display row below the first, so the
\* scan has to step over the passthrough before it.
C7_Witness ==
    /\ failure = "none"
    /\ \E s \in MergedStarts :
         /\ ToDisplayPoint(transforms, OffsetToPoint(text, s)).row > 0
         /\ ToDisplayPoint(transforms, OffsetToPoint(text, s)).column > 0
         /\ IsLineFolded(transforms, ToDisplayPoint(transforms, OffsetToPoint(text, s)).row)
\* ------------------------------------------------------- calls in prospect
\* C8 to C10 speak of calls made from a state.  They are checked from every
\* state in which no call has panicked or wrapped and `folds` has room for
\* the fold.
TakesFold == failure = "none" /\ Len(folds) < MaxFolds

Clean(r) == r.status = "ok" /\ ~r.ovf

\* The range r = <<lo, hi>> touches or overlaps the k-th fold, the stretch
\* between its two anchors.
Abuts(r, k) ==
    /\ r[1] <= Max(FoldSpan(k).start, FoldSpan(k).end)
    /\ r[2] >= Min(FoldSpan(k).start, FoldSpan(k).end)

AbutsNone(r) == \A k \in 1..Len(folds) : ~Abuts(r, k)

Unfolded(r, f) == Unfold(f.folds, f.transforms, text, <<r>>)

Restores(f, u) ==
    Clean(f) /\ Clean(u) /\ DisplayText(u.transforms, text) = DisplayText(transforms, text)

FoldThenUnfold(r, f) == Restores(f, Unfolded(r, f))

\* ---------------------------------------------------------------- C8
\* C8: fold([r]) followed by unfold([r]) restores the display text there was
\* before the fold, for every range r that neither touches nor overlaps a
\* fold already held.
C8_FoldUnfoldRestores ==
    TakesFold => \A r \in Ranges(Len(text)) :
                    AbutsNone(r) => FoldThenUnfold(r, Fold(folds, transforms, text, <<r>>))

\* C8: beside a fold that hides text, a range apart from it is folded, which
\* changes the display, and unfolded again.
C8_Witness ==
    /\ TakesFold
    /\ MergedStarts # {}
    /\ \E r \in Ranges(Len(text)) :
         /\ AbutsNone(r)
         /\ DisplayText(Fold(folds, transforms, text, <<r>>).transforms, text)
              # DisplayText(transforms, text)
         /\ FoldThenUnfold(r, Fold(folds, transforms, text, <<r>>))

\* ---------------------------------------------------------------- C9
FoldedAgain(r, f) == Fold(f.folds, f.transforms, text, <<r>>)

SameDisplay(f, g) ==
    /\ Clean(f) /\ Clean(g)
    /\ DisplayText(g.transforms, text) = DisplayText(f.transforms, text)
    /\ DisplayText(g.transforms, text).status = "ok"

FoldTwice(r, f) == SameDisplay(f, FoldedAgain(r, f))

\* C9: fold([r]) followed by a second fold([r]) shows the same display text
\* as one fold([r]), for every range r and every state.
C9_FoldTwiceIsOnce ==
    TakesFold => \A r \in Ranges(Len(text)) : FoldTwice(r, Fold(folds, transforms, text, <<r>>))

\* C9: a range overlapping a fold already held is folded twice, and the
\* first of the two calls changes the display.
C9_Witness ==
    /\ TakesFold
    /\ \E r \in Ranges(Len(text)) :
         /\ \E k \in 1..Len(folds) : FoldSpan(k).start < FoldSpan(k).end /\ Abuts(r, k)
         /\ DisplayText(Fold(folds, transforms, text, <<r>>).transforms, text)
              # DisplayText(transforms, text)
         /\ FoldTwice(r, Fold(folds, transforms, text, <<r>>))

\* ---------------------------------------------------------------- C10
\* No replaced range of the edit overlaps r; it may touch r's ends.
Apart(ranges, r) == \A i \in 1..Len(ranges) : ranges[i][2] <= r[1] \/ r[2] <= ranges[i][1]

\* r as the anchors fold would take for it resolve after the edit
MovedRange(r, ranges, n) ==
    <<AnchorOffset(AnchorAfterEdit(AnchorAfter(r[1]), ranges, n)),
      AnchorOffset(AnchorAfterEdit(AnchorBefore(r[2]), ranges, n))>>

\* The display points of a display text: one before each character and one
\* after the last.
RECURSIVE PointsOf(_)
PointsOf(s) ==
    IF s = <<>> THEN {PointZero}
    ELSE PointsOf(SubSeq(s, 1, Len(s) - 1)) \cup {SummaryOfText(s).lines}

SameTexts(ta, tb, t, da, db) ==
    /\ da = db
    /\ da.status = "ok"
    /\ \A p \in BufferPoints(t) : ToDisplayPoint(ta, p) = ToDisplayPoint(tb, p)
    /\ \A d \in PointsOf(da.text) :
         /\ ToBufferPoint(ta, d) = ToBufferPoint(tb, d)
         /\ ToDisplayOffset(ta, t, d) = ToDisplayOffset(tb, t, d)

SameView(ta, tb, t) == SameTexts(ta, tb, t, DisplayText(ta, t), DisplayText(tb, t))

EditFirst(r, call, e) ==
    [clean |-> Clean(e), t |-> e.text,
     m |-> Fold(e.folds, e.transforms, e.text, <<MovedRange(r, call[1], Len(call[2]))>>)]

FoldFirst(call, f) ==
    [clean |-> Clean(f), m |-> EditAndApply(f.folds, f.transforms, text, call[1], call[2])]

SameOutcome(x, y) ==
    /\ x.clean /\ y.clean /\ Clean(x.m) /\ Clean(y.m)
    /\ SameView(x.m.transforms, y.m.transforms, x.t)

Commutes(r, call) ==
    SameOutcome(EditFirst(r, call, EditAndApply(folds, transforms, text, call[1], call[2])),
                FoldFirst(call, Fold(folds, transforms, text, <<r>>)))

\* C10: when a buffer edit does not overlap a range r, applying the edit and
\* then folding r, resolved through the anchors taken before the edit, gives
\* the same display text and the same translations (to_display_point,
\* to_buffer_point, to_display_offset) as folding r and then applying the
\* edit.
C10_EditFoldCommute ==
    TakesFold => \A r \in Ranges(Len(text)), call \in EditCalls(text) :
                    Apart(call[1], r) => Commutes(r, call)

\* C10: text is inserted right at the start of a range that hides text, so
\* the range moves, and the two orders agree.
C10_Witness ==
    /\ TakesFold
    /\ \E r \in Ranges(Len(text)), call \in EditCalls(text) :
         /\ r[1] < r[2]
         /\ call[1] = <<(<<r[1], r[1]>>)>>
         /\ MovedRange(r, call[1], Len(call[2])) # r
         /\ Commutes(r, call)

\* ---------------------------------------------------------------- C11
\* The buffer rows at which the display rows from start_row on begin
RowStarts(start_row) ==
    [k \in 1..(MaxPoint(transforms).row - start_row + 1) |->
        ToBufferPoint(transforms, Point(start_row + k - 1, 0)).row]

\* C11: in every state reachable by fold, unfold and apply_edits, for every
\* start_row <= max_point().row, buffer_rows(start_row) yields
\* max_point().row - start_row + 1 values and ends, the k-th being the
\* buffer row of to_buffer_point(DisplayPoint(start_row + k, 0)).
C11_BufferRows ==
    Live => \A start_row \in 0..MaxPoint(transforms).row :
                BufferRows(transforms, start_row) = [status |-> "ok", rows |-> RowStarts(start_row)]

\* ---------------------------------------------------------------- C12
\* The number of characters of s on row `row`, line breaks not counted
RECURSIVE CharsOnRow(_, _)
CharsOnRow(s, row) ==
    IF s = <<>> THEN 0
    ELSE IF Head(s) = NL THEN (IF row = 0 THEN 0 ELSE CharsOnRow(Tail(s), row - 1))
    ELSE (IF row = 0 THEN 1 ELSE 0) + CharsOnRow(Tail(s), row)

\* C12: for every row <= max_point().row, line_len(row) is the number of
\* characters on that row of the display text, its newline not counted; for
\* a row past max_point().row it returns an error.
C12_LineLen ==
    Live => /\ \A row \in 0..MaxPoint(transforms).row :
                 LineLen(transforms, text, row)
                   = [status |-> "ok", ovf |-> FALSE,
                      len |-> CharsOnRow(DisplayText(transforms, text).text, row)]
            /\ \A row \in (MaxPoint(transforms).row + 1)..(MaxPoint(transforms).row + 2) :
                 LineLen(transforms, text, row).status = "err"

\* ---------------------------------------------------------------- C13
\* The closed span [start, end] of the k-th fold meets the closed range r
Meets(k, r) == Max(FoldSpan(k).start, r[1]) <= Min(FoldSpan(k).end, r[2])

\* The folds unfold([r]) is to keep, in their order
RECURSIVE KeptUpTo(_, _)
KeptUpTo(k, r) ==
    IF k = 0 THEN <<>>
    ELSE IF Meets(k, r) THEN KeptUpTo(k - 1, r)
    ELSE Append(KeptUpTo(k - 1, r), folds[k])

\* The transforms ts show the buffer character at offset o as it is: the
\* transform that covers it is a passthrough.
ShownIn(ts, o) ==
    \E k \in 1..Len(ts) :
        /\ PrefixSummary(ts, k - 1).buffer.chars <= o
        /\ o < PrefixSummary(ts, k).buffer.chars
        /\ ~IsFold(ts[k])

\* The k-th fold hides the character at offset o
Hides(k, o) == FoldSpan(k).start <= o /\ o < FoldSpan(k).end

UnfoldsToKept(r, u) ==
    /\ Clean(u)
    /\ u.folds = KeptUpTo(Len(folds), r)
    /\ \A k \in 1..Len(folds) :
         Meets(k, r) => \A o \in FoldSpan(k).start..(FoldSpan(k).end - 1) :
                           \/ ShownIn(u.transforms, o)
                           \/ \E j \in 1..Len(folds) : ~Meets(j, r) /\ Hides(j, o)

\* C13: unfold([r]) removes from `folds` exactly the folds whose closed span
\* [start, end] intersects r, touching at an endpoint included, and keeps
\* every other fold; afterwards the removed folds' text is shown verbatim
\* (wherever no fold that was kept hides it).
C13_UnfoldRemoves ==
    failure = "none" =>
        \A r \in Ranges(Len(text)) : UnfoldsToKept(r, Unfold(folds, transforms, text, <<r>>))

\* ---------------------------------------------------------------- C14
\* Two ranges of which the buffer of n characters rejects the second, its
\* end lying past the buffer's end
RejectedLists(n) == {<<r, <<lo, n + 1>>>> : r \in Ranges(n), lo \in 0..n}

\* The call returned an Err and left the map as it was
Untouched(c) == c.status = "err" /\ c.folds = folds /\ c.transforms = transforms

\* C14: when fold or unfold returns an error partway, a later range of the
\* call being rejected by the buffer, the call has added no fold to `folds`
\* and removed none, so `folds` and `transforms` still agree.
C14_AllOrNothing ==
    failure = "none" =>
        \A ranges \in RejectedLists(Len(text)) :
            /\ Untouched(Fold(folds, transforms, text, ranges))
            /\ Untouched(Unfold(folds, transforms, text, ranges))

\* ---------------------------------------------------------------- C15
Reversed(seq) == [i \in 1..Len(seq) |-> seq[Len(seq) + 1 - i]]

\* The two apply_edits calls yield trees with the same coverage and the
\* same display text over the text t, neither panicking nor wrapping.
SameRebuild(a, b, t) ==
    /\ Clean(a) /\ Clean(b)
    /\ TreeSummary(a.transforms).buffer = TreeSummary(b.transforms).buffer
    /\ DisplayText(a.transforms, t) = DisplayText(b.transforms, t)

\* apply_edits after buffer.edit(call) with the buffer's edits as they come,
\* sorted by old_range.start, and with the same edits in the other order
OrderBlind(fs, t, edits) ==
    SameRebuild(ApplyEdits(transforms, fs, t, edits),
                ApplyEdits(transforms, fs, t, Reversed(edits)), t)

\* C15: given the same set of edits in any order, apply_edits produces a
\* tree with the same coverage and the same display text as when the edits
\* are sorted by old_range.start.
C15_UnsortedEdits ==
    failure = "none" =>
        \A call \in EditCalls(text) :
            OrderBlind(MovedFolds(folds, call[1], Len(call[2])),
                       EditText(text, call[1], call[2]),
                       EditsSince(call[1], Len(call[2])))

\* ---------------------------------------------------------------- C16
\* Display points past max_point(): on a later row, or further right on
\* its row
PointsBeyond ==
    {Point(r, c) : r \in 0..(MaxPoint(transforms).row + 2), c \in 0..(MaxLen + 1)}
        \ {p \in {Point(r, c) : r \in 0..(MaxPoint(transforms).row + 2), c \in 0..(MaxLen + 1)} :
               PointCmp(p, MaxPoint(transforms)) <= 0}

\* C16: buffer_rows(start_row) and to_display_offset(point) return an error,
\* without panicking, whenever the row or point lies beyond max_point();
\* buffer_rows succeeds for every start_row <= max_point().row.
C16_OutOfBounds ==
    Live => /\ \A p \in PointsBeyond : ToDisplayOffset(transforms, text, p).status = "err"
            /\ \A row \in (MaxPoint(transforms).row + 1)..(MaxPoint(transforms).row + 2) :
                 BufferRows(transforms, row).status = "err"
            /\ \A row \in 0..MaxPoint(transforms).row :
                 BufferRows(transforms, row).status = "ok"

\* C16: the map shows two rows and an ellipsis ends the last one; the point
\* right after it is refused and buffer_rows of the last row is served.
C16_Witness ==
    /\ failure = "none"
    /\ MaxPoint(transforms).row > 0
    /\ transforms # <<>> /\ IsFold(transforms[Len(transforms)])
    /\ ToDisplayOffset(transforms, text, PointAdd(MaxPoint(transforms), Point(0, 1))).status = "err"
    /\ BufferRows(transforms, MaxPoint(transforms).row).status = "ok"
    /\ BufferRows(transforms, MaxPoint(transforms).row).rows # <<>>

\* ---------------------------------------------------------------- C20
\* C20: the transform tree is never empty after any sequence of fold, unfold
\* and apply_edits; over an empty buffer it is the single passthrough
\* transform with zero summary that new() builds.
C20_TreeNeverEmpty ==
    Live => /\ transforms # <<>>
            /\ text = <<>> => transforms = NewTransforms(<<>>)

\* ---------------------------------------------------------------- C17
\* How many of the items show the entry
CountOf(items, entry) == Cardinality({i \in 1..Len(items) : items[i] = entry})

\* `after` is `w` with n items more in the pane active in w, all n for the
\* entry, and every other pane as it was
AddsToActive(w, after, entry, n) ==
    /\ after.panes = w.panes
    /\ DOMAIN after.pane_views = DOMAIN w.pane_views
    /\ \A p \in DOMAIN w.pane_views :
         IF p = w.active_pane
         THEN /\ Len(after.pane_views[p].items) = Len(w.pane_views[p].items) + n
              /\ CountOf(after.pane_views[p].items, entry)
                     = CountOf(w.pane_views[p].items, entry) + n
         ELSE after.pane_views[p] = w.pane_views[p]

\* open_entry for an entry whose load is in flight changes nothing
LaterCallIdle(entry) ==
    \A accepted \in BOOLEAN : OpenEntry(workspace_view, entry, accepted) = workspace_view

\* C17: open_entry for an entry whose earlier open_entry is still loading
\* does nothing, and when the load completes, however it ends, exactly one
\* item for the entry has been added to the pane.
C17_OneItemPerLoad ==
    Running =>
        \A entry \in Entries :
            workspace_view.tasks[entry] > 0 =>
                /\ LaterCallIdle(entry)
                /\ \A loaded \in BOOLEAN :
                     AddsToActive(workspace_view, LoadDone(workspace_view, entry, loaded), entry, 1)

\* C17 amended: open_entry for an entry whose earlier open_entry is still
\* loading does nothing, so never more than one load of an entry is in
\* flight; a load that ends with an item adds exactly one item for the entry,
\* to the pane active at that moment, and a load that fails adds none.
C17_OneItemPerLoadedEntry ==
    Running =>
        \A entry \in Entries :
            workspace_view.tasks[entry] > 0 =>
                /\ LaterCallIdle(entry)
                /\ workspace_view.tasks[entry] = 1
                /\ AddsToActive(workspace_view, LoadDone(workspace_view, entry, TRUE), entry, 1)
                /\ AddsToActive(workspace_view, LoadDone(workspace_view, entry, FALSE), entry, 0)
                /\ \A loaded \in BOOLEAN :
                     /\ ~LoadDone(workspace_view, entry, loaded).panic
                     /\ ~LoadDone(workspace_view, entry, loaded).ovf
                     /\ entry \notin LoadDone(workspace_view, entry, loaded).loading_entries

\* C17: an entry is loading while the active pane already shows an item
C17_Witness ==
    /\ Running
    /\ \E entry \in Entries :
         /\ workspace_view.tasks[entry] = 1
         /\ entry \in workspace_view.loading_entries
    /\ workspace_view.pane_views[workspace_view.active_pane].items # <<>>

\* ---------------------------------------------------------------- C19
\* The entry the pane's active item shows, 0 when it has no active item
ActiveEntry(pane) ==
    IF pane.active_item < Len(pane.items) THEN pane.items[pane.active_item + 1] ELSE 0

\* C19: open_entry for an entry already open in the active pane activates
\* the existing item and adds none: every pane keeps its items, no load is
\* started, and the active pane's active item is one for that entry.
C19_OpenAgainActivates ==
    Running =>
        \A entry \in Entries, accepted \in BOOLEAN :
            CountOf(workspace_view.pane_views[workspace_view.active_pane].items, entry) > 0 =>
                LET after == OpenEntry(workspace_view, entry, accepted)
                IN /\ AddsToActive(workspace_view, after, entry, 0)
                   /\ after.tasks = workspace_view.tasks
                   /\ after.active_pane = workspace_view.active_pane
                   /\ ActiveEntry(after.pane_views[after.active_pane]) = entry

\* ---------------------------------------------------------------- C18
\* The ids in a list of panes
PaneSet(ids) == {ids[i] : i \in 1..Len(ids)}

\* The pane held one item before the step and holds none, or is gone,
\* after it
LosesLastItem(pane_id) ==
    /\ Len(workspace_view.pane_views[pane_id].items) = 1
    /\ \/ pane_id \notin DOMAIN workspace_view'.pane_views
       \/ workspace_view'.pane_views[pane_id].items = <<>>

\* The pane is gone from panes and from center, the other panes are all
\* there, and one of them is active
RemovedInStep(pane_id) ==
    /\ PaneSet(workspace_view'.panes) = PaneSet(workspace_view.panes) \ {pane_id}
    /\ PaneSet(MemberPanes(workspace_view'.center)) = PaneSet(workspace_view'.panes)
    /\ DOMAIN workspace_view'.pane_views = PaneSet(workspace_view'.panes)
    /\ workspace_view'.active_pane \in PaneSet(workspace_view'.panes)

\* C18: a pane that is not the only one and loses its last item through
\* close_active_item is removed from `panes` and from `center` and a pane
\* that remains becomes the active one; the only pane is never removed.
C18_EmptiedPaneRemoved ==
    [][/\ \A pane_id \in PaneSet(workspace_view.panes) :
            (Len(workspace_view.panes) > 1 /\ LosesLastItem(pane_id)) => RemovedInStep(pane_id)
       /\ Len(workspace_view.panes) = 1 =>
            /\ PaneSet(workspace_view.panes) \subseteq PaneSet(workspace_view'.panes)
            /\ PaneSet(workspace_view.panes) \subseteq PaneSet(MemberPanes(workspace_view'.center))]_vars

\* C18: of two panes one holds a single item, and closing it leaves the
\* other pane alone in the workspace, active
C18_Witness ==
    /\ Running
    /\ Len(workspace_view.panes) = 2
    /\ \E i \in 1..2 :
         /\ Len(workspace_view.pane_views[workspace_view.panes[i]].items) = 1
         /\ CloseItem(workspace_view, workspace_view.panes[i]).panes = <<workspace_view.panes[3 - i]>>
         /\ CloseItem(workspace_view, workspace_view.panes[i]).active_pane = workspace_view.panes[3 - i]
         /\ CloseItem(workspace_view, workspace_view.panes[i]).center = PaneMember(workspace_view.panes[3 - i])

\* ---------------------------------------------------------------- C21
\* The character at offset o lies under a fold transform of the tree
FoldedIn(ts, o) ==
    \E k \in 1..Len(ts) :
        /\ PrefixSummary(ts, k - 1).buffer.chars <= o
        /\ o < PrefixSummary(ts, k).buffer.chars
        /\ IsFold(ts[k])

\* Every character a fold transform of the result covers is hidden by a fold
\* the result still holds
NoStaleFold(u) ==
    \A o \in 0..(Len(text) - 1) :
        FoldedIn(u.transforms, o) =>
            \E k \in 1..Len(u.folds) :
                FoldOffsets(u.folds[k]).start <= o /\ o < FoldOffsets(u.folds[k]).end

\* The two unfold calls end alike: both return Ok without a wrapped
\* subtraction, with the same folds and the same display text
SameUnfold(a, b) ==
    /\ Clean(a) /\ Clean(b)
    /\ a.folds = b.folds
    /\ DisplayText(a.transforms, text) = DisplayText(b.transforms, text)

\* C21: unfold(ranges) gives the same `folds` and the same display text for
\* the ranges in either order, and leaves no fold transform for a fold that
\* is no longer in `folds`.
C21_UnfoldOrder ==
    failure = "none" =>
        \A r \in Ranges(Len(text)), q \in Ranges(Len(text)) :
            /\ SameUnfold(Unfold(folds, transforms, text, <<r, q>>),
                          Unfold(folds, transforms, text, <<q, r>>))
            /\ NoStaleFold(Unfold(folds, transforms, text, <<r, q>>))

\* ---------------------------------------------------------------- C22
NoAdjacentFolds ==
    \A k \in 1..(Len(transforms) - 1) : ~(IsFold(transforms[k]) /\ IsFold(transforms[k + 1]))

\* Each merged span of `folds` is the buffer span of one fold transform
OneFoldPerSpan ==
    \A s \in MergedStarts :
        \E k \in 1..Len(transforms) :
            IsFold(transforms[k]) /\ SpanLo(k) = s /\ SpanHi(k) = MergedEnd(s)

\* C22: no two fold transforms are ever adjacent in the tree; folds that
\* overlap or touch, however they came to, are one fold transform whose
\* buffer span is their merged union.
C22_FoldsMerged == Live => NoAdjacentFolds /\ OneFoldPerSpan

\* ---------------------------------------------------------------- C23
SortedByStart ==
    \A k \in 1..(Len(folds) - 1) : AnchorCmp(folds[k].start, folds[k + 1].start) <= 0

\* The index apply_edits' binary search gives for a rebuilt region starting
\* at offset o, counted from 0
FoldsStart(o) ==
    FindInsertionIndex([k \in 1..Len(folds) |-> AnchorCmp(folds[k].start, AnchorBefore(o))])

\* No fold that starts at or after o lies before that index
SearchFinds(o) == \A k \in 1..Len(folds) : FoldSpan(k).start >= o => k > FoldsStart(o)

\* C23: `folds` is ordered by start anchor after every fold and unfold and
\* stays so after any buffer edit, and the binary search by start anchor in
\* apply_edits leaves out no fold that starts in the rebuilt region.
C23_FoldsSorted ==
    Live => SortedByStart /\ \A o \in 0..Len(text) : SearchFinds(o)

\* C23: two folds with different starts, one of them turned inside out by
\* an insertion into the buffer
C23_Witness ==
    /\ failure = "none"
    /\ Len(folds) = 2
    /\ FoldSpan(1).start < FoldSpan(2).start
    /\ \E k \in 1..2 : FoldSpan(k).start > FoldSpan(k).end

\* ---------------------------------------------------------------- C24
\* Every fold transform spans at least one character, and no fold transform
\* starts where an empty fold lies unless a fold that is not empty hides
\* the character there
FoldTransformsFull ==
    /\ \A k \in 1..Len(transforms) :
         IsFold(transforms[k]) => transforms[k].summary.buffer.chars >= 1
    /\ \A k \in 1..Len(folds) :
         (/\ FoldSpan(k).start >= FoldSpan(k).end
          /\ FoldSpan(k).start < Len(text)
          /\ ~Hidden(FoldSpan(k).start))
             => ~FoldedIn(transforms, FoldSpan(k).start)

\* fold([o..o]), when it returns, has put the empty fold into `folds` and
\* left the display as it was
EmptyFoldKept(o) ==
    LET u == Fold(folds, transforms, text, <<<<o, o>>>>)
    IN Clean(u) =>
         /\ Len(u.folds) = Len(folds) + 1
         /\ \E k \in 1..Len(u.folds) : u.folds[k] = FoldAnchors(o, o)
         /\ DisplayText(u.transforms, text) = DisplayText(transforms, text)

\* A buffer edit with its apply_edits, when it returns, has kept every
\* entry of `folds`, those it emptied included
EditKeepsFolds(call) ==
    LET u == EditAndApply(folds, transforms, text, call[1], call[2])
    IN Clean(u) => Len(u.folds) = Len(folds)

\* C24: a fold whose span is empty when the tree is rebuilt, submitted empty
\* or emptied by a deletion, produces no fold transform and no ellipsis, yet
\* its entry stays in `folds`; every fold transform spans at least one
\* buffer character.
C24_EmptyFolds ==
    /\ Live => FoldTransformsFull
    /\ failure = "none" =>
         /\ \A o \in 0..Len(text) : EmptyFoldKept(o)
         /\ \A call \in EditCalls(text) : EditKeepsFolds(call)

\* C24: `folds` holds an empty fold where nothing is hidden and a fold that
\* is not empty, and the tree holds one fold transform
C24_Witness ==
    /\ failure = "none"
    /\ Len(folds) = 2
    /\ \E k \in 1..2 :
         /\ FoldSpan(k).start = FoldSpan(k).end
         /\ FoldSpan(k).start < Len(text)
         /\ ~Hidden(FoldSpan(k).start)
         /\ FoldSpan(3 - k).start < FoldSpan(3 - k).end
    /\ Cardinality({k \in 1..Len(transforms) : IsFold(transforms[k])}) = 1

\* ---------------------------------------------------------------- C25
\* No fold, unfold or buffer edit made now trips the assertion on the
\* fold's start
NoAssertFrom ==
    /\ \A ranges \in RangeLists(Len(text)) :
         /\ Fold(folds, transforms, text, ranges).status # "assert"
         /\ Unfold(folds, transforms, text, ranges).status # "assert"
    /\ \A call \in EditCalls(text) :
         EditAndApply(folds, transforms, text, call[1], call[2]).status # "assert"

\* C25: the assertion in apply_edits that each fold selected for the rebuilt
\* region starts at or after the buffer position the new tree already
\* covers never fails, for the edits of fold, of unfold and of the buffer's
\* edits_since, in any reachable state.
C25_AssertHolds == Live => NoAssertFrom

\* C25: two folds shown as two ellipses, and a buffer edit whose rebuilt
\* region takes in a fold and passes the assertion
C25_Witness ==
    /\ failure = "none"
    /\ Len(folds) = 2
    /\ Cardinality({k \in 1..Len(transforms) : IsFold(transforms[k])}) = 2
    /\ \E call \in EditCalls(text) :
         /\ Clean(EditAndApply(folds, transforms, text, call[1], call[2]))
         /\ call[1][1][1] <= FoldSpan(1).start
         /\ call[1][1][2] >= FoldSpan(1).start + 1
         /\ \E k \in 1..Len(EditAndApply(folds, transforms, text, call[1], call[2]).transforms) :
              IsFold(EditAndApply(folds, transforms, text, call[1], call[2]).transforms[k])

\* ---------------------------------------------------------------- C26
\* Display points on the map's rows and two rows below, in every column up
\* to one past the longest line
DisplayPoints ==
    {Point(r, c) : r \in 0..(MaxPoint(transforms).row + 2), c \in 0..(MaxLen + 1)}

\* The transform a Right-bias seek to the display point stops in, and how
\* far past its start the point lies
Reached(p) == Seek(transforms, "DisplayPoint", p, "Right")
Overshoot(p) == PointSub(p, CursorStart(transforms, Reached(p)).display.lines)

\* C26: to_display_offset never trips its assertion that the reached
\* transform is a passthrough: for every DisplayPoint, a Right-bias seek
\* that leaves a nonzero overshoot lands on a passthrough transform or past
\* the end, never on a fold transform, so the call returns a value or an
\* error and never panics.
C26_NoFoldOvershoot ==
    Live => \A p \in DisplayPoints :
        /\ ToDisplayOffset(transforms, text, p).status \in {"ok", "err"}
        /\ Overshoot(p) # PointZero /\ HasItem(transforms, Reached(p))
               => ~IsFold(transforms[Reached(p)])
        /\ Overshoot(p) # PointZero /\ ToDisplayOffset(transforms, text, p).status = "ok"
               => PointToOffset(text, PointAdd(CursorStart(transforms, Reached(p)).buffer.lines,
                                               Overshoot(p)))
                    >= CursorStart(transforms, Reached(p)).buffer.chars

\* C26: a point past a fold's ellipsis, inside the passthrough that follows
\* it, is given an offset
C26_Witness ==
    /\ failure = "none"
    /\ \E p \in DisplayPoints :
         /\ Overshoot(p) # PointZero
         /\ HasItem(transforms, Reached(p))
         /\ Reached(p) > 1
         /\ IsFold(transforms[Reached(p) - 1])
         /\ ToDisplayOffset(transforms, text, p).status = "ok"

\* ---------------------------------------------------------------- C27
\* Lists of one edit a caller may hand to apply_edits, the ranges reaching
\* up to one past the buffer's end
AnyEdits ==
    {<<MakeEdit(o[1], o[2], n[1], n[2])>> : o \in Ranges(Len(text)), n \in Ranges(Len(text) + 1)}

\* The map after apply_edits(edits), called in the current state
Applied(edits) == WithFolds(ApplyEdits(transforms, folds, text, edits), folds)

\* C27: apply_edits changes nothing but `transforms`: it never adds, removes
\* or reorders entries of `folds`, and when it returns an error `transforms`
\* is left exactly as before the call (the newly built tree is swapped in
\* only on success).
C27_OnlyTransforms ==
    Live => \A edits \in AnyEdits :
        /\ Applied(edits).folds = folds
        /\ Applied(edits).status = "err" => Applied(edits).transforms = transforms

\* C27: a map with a fold shown, and a call that returns an error after the
\* loop has begun the new tree
C27_Witness ==
    /\ failure = "none"
    /\ \E k \in 1..Len(transforms) : IsFold(transforms[k])
    /\ \E edits \in AnyEdits :
         /\ Applied(edits).status = "err"
         /\ Applied(edits).transforms = transforms
         /\ edits[1].old_range.start > 0

\* ---------------------------------------------------------------- C28
\* C28: every entry that open_entry puts into `loading_entries` is
\* eventually removed from it once its load attempt ends, whether the load
\* succeeds, fails asynchronously, or is rejected immediately by
\* Workspace::open_entry, so a later open_entry for that entry is never
\* ignored forever.  A run a panic has ended is not held against it.
C28_LoadingEnds ==
    \A entry \in Entries :
        (entry \in workspace_view.loading_entries)
            ~> (entry \notin workspace_view.loading_entries \/ ~Running)

\* ---------------------------------------------------------------- C29
\* The pane's active_item is an index into its items, and 0 when it has none
ActiveItemValid(pane) ==
    IF pane.items = <<>> THEN pane.active_item = 0
    ELSE pane.active_item < Len(pane.items)

\* C29: after any sequence of add_item, activate_item, activate_prev_item,
\* activate_next_item and close_active_item on a Pane, `active_item` is a
\* valid index into `items` whenever the pane holds an item and is 0 when
\* the pane is empty; no operation in the sequence fails or wraps on an
\* empty pane.
C29_ActiveItemValid ==
    /\ ~workspace_view.panic
    /\ ~workspace_view.ovf
    /\ \A i \in 1..Len(workspace_view.panes) :
         ActiveItemValid(workspace_view.pane_views[workspace_view.panes[i]])

\* ---------------------------------------------------------------- C30
\* The panes of the view and the panes of its group are the same, each once
SamePanes ==
    /\ PaneSet(MemberPanes(workspace_view.center)) = PaneSet(workspace_view.panes)
    /\ Len(MemberPanes(workspace_view.center)) = Len(workspace_view.panes)
    /\ Cardinality(PaneSet(workspace_view.panes)) = Len(workspace_view.panes)

\* C30: after any sequence of pane Split, Remove and Activate events handled
\* by WorkspaceView, `panes` is non-empty, `active_pane` is a member of
\* `panes`, and the pane ids contained in the `center` PaneGroup are exactly
\* the ids of the panes in `panes` (so the unwraps on center.split and
\* center.remove never fail).
C30_PanesConsistent ==
    /\ ~workspace_view.panic
    /\ workspace_view.panes # <<>>
    /\ workspace_view.active_pane \in PaneSet(workspace_view.panes)
    /\ SamePanes

\* C30: three panes left after a removal, two of them in an axis inside the
\* root axis
C30_Witness ==
    /\ Len(workspace_view.panes) = 3
    /\ workspace_view.next_pane_id = 5
    /\ workspace_view.center.kind = "Axis"
    /\ \E k \in 1..Len(workspace_view.center.members) :
         workspace_view.center.members[k].kind = "Axis"
    /\ workspace_view.active_pane # workspace_view.panes[Len(workspace_view.panes)]
====
